---- MODULE Spec2Model ----
(***************************************************************************)
(* orm-setup: the universal table catalog, the dependency resolver         *)
(* getTablesWithDependencies (src/prompts.ts), the table-driven schema      *)
(* emitters generateSchemaForORM (src/generators/table-generators.ts) and   *)
(* the preset schema texts getDrizzleSchema, getPrismaSchema and            *)
(* getKyselySchema (src/generators/templates/schemas.ts), the installer     *)
(* (src/package-manager.ts), the file writer (src/file-writer.ts) and the   *)
(* command-line flows that drive them (src/index.ts and its predecessors).  *)
(*                                                                         *)
(* Spec is the resolver with the emitters and the presets, SpecPair two     *)
(* resolver calls in progress at once, SpecSetup the command-line flows.    *)
(*                                                                         *)
(* A TableDefinition in a result list is a reference to a catalog constant; *)
(* the catalog is immutable and its names are unique, so a reference is     *)
(* modelled by the table's name.  An optional property that is undefined in *)
(* the source is modelled by the value every test of the code treats like   *)
(* undefined: FALSE for a flag, 0 for length, NoDefault, NoReferences, <<>>.*)
(***************************************************************************)
EXTENDS Integers, Sequences, FiniteSets, TLC

\* ------------------------------------------------------------------ bounds
\* Longest request list passed to getTablesWithDependencies.
MaxRequest == 2
\* Frames of addTable the engine's call stack holds before it throws
\* RangeError (Maximum call stack size exceeded).
MaxStack == 5
\* Longest caller-selected table list handed to an emitter.
MaxSelected == 2
\* Longest request list of each of two calls in progress at once.
MaxPair == 1

\* ------------------------------------------------------- the Field interface
NoDefault == [kind |-> "undefined", text |-> ""]

Default(kind, text) == [kind |-> kind, text |-> text]

NoReferences == [table |-> "", field |-> "", onDelete |-> ""]

\* onDelete = "" stands for an absent onDelete.
References(table, field, onDelete) ==
  [table |-> table, field |-> field, onDelete |-> onDelete]

Field(name, type) ==
  [ name |-> name, type |-> type, required |-> FALSE, unique |-> FALSE,
    default |-> NoDefault, isPrimaryKey |-> FALSE, isAutoIncrement |-> FALSE,
    length |-> 0, references |-> NoReferences ]

hasReferences(field) == field.references # NoReferences

\* ------------------------------------------------------------ core tables
userTable ==
  [ name |-> "users",
    displayName |-> "User",
    fields |-> <<
      [Field("id", "uuid") EXCEPT !.isPrimaryKey = TRUE],
      [Field("email", "string") EXCEPT !.required = TRUE, !.unique = TRUE, !.length = 255],
      [Field("name", "string") EXCEPT !.length = 255],
      Field("emailVerified", "date"),
      [Field("image", "string") EXCEPT !.length = 500],
      [Field("createdAt", "date") EXCEPT !.default = Default("string", "now")],
      [Field("updatedAt", "date") EXCEPT !.default = Default("string", "now")] >>,
    relations |-> <<  >> ]

postTable ==
  [ name |-> "posts",
    displayName |-> "Post",
    fields |-> <<
      [Field("id", "uuid") EXCEPT !.isPrimaryKey = TRUE],
      [Field("title", "string") EXCEPT !.required = TRUE, !.length = 255],
      [Field("slug", "string") EXCEPT !.required = TRUE, !.unique = TRUE, !.length = 255],
      Field("content", "text"),
      [Field("excerpt", "string") EXCEPT !.length = 500],
      [Field("published", "boolean") EXCEPT !.default = Default("boolean", "false")],
      Field("publishedAt", "date"),
      [Field("authorId", "uuid") EXCEPT !.required = TRUE, !.references = References("users", "id", "cascade")],
      [Field("createdAt", "date") EXCEPT !.default = Default("string", "now")],
      [Field("updatedAt", "date") EXCEPT !.default = Default("string", "now")] >>,
    relations |-> << [type |-> "many-to-one", toTable |-> "users", fieldName |-> "author"],
      [type |-> "one-to-many", toTable |-> "comments", fieldName |-> "comments"] >> ]

commentTable ==
  [ name |-> "comments",
    displayName |-> "Comment",
    fields |-> <<
      [Field("id", "uuid") EXCEPT !.isPrimaryKey = TRUE],
      [Field("content", "text") EXCEPT !.required = TRUE],
      [Field("postId", "uuid") EXCEPT !.required = TRUE, !.references = References("posts", "id", "cascade")],
      [Field("authorId", "uuid") EXCEPT !.required = TRUE, !.references = References("users", "id", "cascade")],
      [Field("parentId", "uuid") EXCEPT !.references = References("comments", "id", "cascade")],
      [Field("createdAt", "date") EXCEPT !.default = Default("string", "now")],
      [Field("updatedAt", "date") EXCEPT !.default = Default("string", "now")] >>,
    relations |-> <<  >> ]

categoryTable ==
  [ name |-> "categories",
    displayName |-> "Category",
    fields |-> <<
      [Field("id", "uuid") EXCEPT !.isPrimaryKey = TRUE],
      [Field("name", "string") EXCEPT !.required = TRUE, !.unique = TRUE, !.length = 100],
      [Field("slug", "string") EXCEPT !.required = TRUE, !.unique = TRUE, !.length = 100],
      Field("description", "text"),
      [Field("createdAt", "date") EXCEPT !.default = Default("string", "now")] >>,
    relations |-> <<  >> ]

\* tagTable with its slug marked as a second primary key.
tagTable_TwoKeys ==
  [ name |-> "tags",
    displayName |-> "Tag",
    fields |-> <<
      [Field("id", "uuid") EXCEPT !.isPrimaryKey = TRUE],
      [Field("name", "string") EXCEPT !.required = TRUE, !.unique = TRUE, !.length = 50],
      [Field("slug", "string") EXCEPT !.isPrimaryKey = TRUE, !.required = TRUE, !.unique = TRUE, !.length = 50],
      [Field("createdAt", "date") EXCEPT !.default = Default("string", "now")] >>,
    relations |-> <<  >> ]

tagTable ==
  [ name |-> "tags",
    displayName |-> "Tag",
    fields |-> <<
      [Field("id", "uuid") EXCEPT !.isPrimaryKey = TRUE],
      [Field("name", "string") EXCEPT !.required = TRUE, !.unique = TRUE, !.length = 50],
      [Field("slug", "string") EXCEPT !.required = TRUE, !.unique = TRUE, !.length = 50],
      [Field("createdAt", "date") EXCEPT !.default = Default("string", "now")] >>,
    relations |-> <<  >> ]

productTable ==
  [ name |-> "products",
    displayName |-> "Product",
    fields |-> <<
      [Field("id", "uuid") EXCEPT !.isPrimaryKey = TRUE],
      [Field("name", "string") EXCEPT !.required = TRUE, !.length = 255],
      [Field("slug", "string") EXCEPT !.required = TRUE, !.unique = TRUE, !.length = 255],
      Field("description", "text"),
      [Field("price", "number") EXCEPT !.required = TRUE],
      Field("compareAtPrice", "number"),
      [Field("inventory", "number") EXCEPT !.default = Default("number", "0")],
      Field("images", "json"),
      [Field("published", "boolean") EXCEPT !.default = Default("boolean", "false")],
      [Field("createdAt", "date") EXCEPT !.default = Default("string", "now")],
      [Field("updatedAt", "date") EXCEPT !.default = Default("string", "now")] >>,
    relations |-> <<  >> ]

orderTable ==
  [ name |-> "orders",
    displayName |-> "Order",
    fields |-> <<
      [Field("id", "uuid") EXCEPT !.isPrimaryKey = TRUE],
      [Field("orderNumber", "string") EXCEPT !.required = TRUE, !.unique = TRUE, !.length = 20],
      [Field("userId", "uuid") EXCEPT !.required = TRUE, !.references = References("users", "id", "")],
      [Field("status", "string") EXCEPT !.required = TRUE, !.length = 50, !.default = Default("string", "pending")],
      [Field("total", "number") EXCEPT !.required = TRUE],
      [Field("subtotal", "number") EXCEPT !.required = TRUE],
      [Field("tax", "number") EXCEPT !.default = Default("number", "0")],
      [Field("shipping", "number") EXCEPT !.default = Default("number", "0")],
      Field("shippingAddress", "json"),
      [Field("createdAt", "date") EXCEPT !.default = Default("string", "now")],
      [Field("updatedAt", "date") EXCEPT !.default = Default("string", "now")] >>,
    relations |-> <<  >> ]

organizationTable ==
  [ name |-> "organizations",
    displayName |-> "Organization",
    fields |-> <<
      [Field("id", "uuid") EXCEPT !.isPrimaryKey = TRUE],
      [Field("name", "string") EXCEPT !.required = TRUE, !.length = 255],
      [Field("slug", "string") EXCEPT !.required = TRUE, !.unique = TRUE, !.length = 255],
      [Field("logo", "string") EXCEPT !.length = 500],
      [Field("plan", "string") EXCEPT !.length = 50, !.default = Default("string", "free")],
      [Field("createdAt", "date") EXCEPT !.default = Default("string", "now")],
      [Field("updatedAt", "date") EXCEPT !.default = Default("string", "now")] >>,
    relations |-> <<  >> ]

subscriptionTable ==
  [ name |-> "subscriptions",
    displayName |-> "Subscription",
    fields |-> <<
      [Field("id", "uuid") EXCEPT !.isPrimaryKey = TRUE],
      [Field("organizationId", "uuid") EXCEPT !.required = TRUE, !.references = References("organizations", "id", "cascade")],
      [Field("plan", "string") EXCEPT !.required = TRUE, !.length = 50],
      [Field("status", "string") EXCEPT !.required = TRUE, !.length = 50, !.default = Default("string", "active")],
      [Field("currentPeriodStart", "date") EXCEPT !.required = TRUE],
      [Field("currentPeriodEnd", "date") EXCEPT !.required = TRUE],
      [Field("cancelAtPeriodEnd", "boolean") EXCEPT !.default = Default("boolean", "false")],
      [Field("stripeSubscriptionId", "string") EXCEPT !.unique = TRUE, !.length = 255],
      [Field("createdAt", "date") EXCEPT !.default = Default("string", "now")],
      [Field("updatedAt", "date") EXCEPT !.default = Default("string", "now")] >>,
    relations |-> <<  >> ]

\* ------------------------------------------- a caller-supplied definition
\* generateSchemaForORM takes any TableDefinition[]: a table the caller wrote,
\* in no catalog, with an auto-increment key and a field whose type is none
\* of the seven the Field interface lists (the emitters' default: branches).
widgetTable ==
  [ name |-> "widgets",
    displayName |-> "widget",
    fields |-> <<
      [Field("id", "number") EXCEPT !.isPrimaryKey = TRUE, !.isAutoIncrement = TRUE],
      [Field("amount", "decimal") EXCEPT !.required = TRUE],
      [Field("label", "string") EXCEPT !.default = Default("string", "new")] >>,
    relations |-> << >> ]

\* schemaTemplates with a table listed in the preset "empty".
schemaTemplates_EmptyHasTable ==
  << [id |-> "starter",   tables |-> <<"users">>],
     [id |-> "blog",      tables |-> <<"users", "posts", "comments", "categories", "tags">>],
     [id |-> "ecommerce", tables |-> <<"users", "products", "orders">>],
     [id |-> "saas",      tables |-> <<"users", "organizations", "subscriptions">>],
     [id |-> "custom",    tables |-> <<>>],
     [id |-> "empty",     tables |-> <<"users">>] >>

\* schemaTemplates with the orders of the ecommerce preset listed before the
\* users they reference.
schemaTemplates_OrdersFirst ==
  << [id |-> "starter",   tables |-> <<"users">>],
     [id |-> "blog",      tables |-> <<"users", "posts", "comments", "categories", "tags">>],
     [id |-> "ecommerce", tables |-> <<"orders", "users", "products">>],
     [id |-> "saas",      tables |-> <<"users", "organizations", "subscriptions">>],
     [id |-> "custom",    tables |-> <<>>],
     [id |-> "empty",     tables |-> <<>>] >>

\* -------------------------------------------------------- template bundles
\* A preset's tables, as the names of the catalog constants it lists.
schemaTemplates ==
  << [id |-> "starter",   tables |-> <<"users">>],
     [id |-> "blog",      tables |-> <<"users", "posts", "comments", "categories", "tags">>],
     [id |-> "ecommerce", tables |-> <<"users", "products", "orders">>],
     [id |-> "saas",      tables |-> <<"users", "organizations", "subscriptions">>],
     [id |-> "custom",    tables |-> <<>>],
     [id |-> "empty",     tables |-> <<>>] >>

\* --------------------------------------------------- all available tables
allTables ==
  << userTable, postTable, commentTable, categoryTable, tagTable,
     productTable, orderTable, organizationTable, subscriptionTable >>

\* The arrays allTables and schemaTemplates as they stand in memory while the
\* program runs; the two definitions above are the values the module sets
\* them to.
VARIABLES catalog, presets

\* The value of allTables.find(...) when no table matches.
undefined ==
  [name |-> "undefined", displayName |-> "undefined", fields |-> <<>>, relations |-> <<>>]

getTableByName(name) ==
  LET hits == {i \in 1..Len(catalog) : catalog[i].name = name}
  IN  IF hits = {} THEN undefined
      ELSE catalog[CHOOSE i \in hits : \A j \in hits : i <= j]

CatalogNames == {allTables[i].name : i \in 1..Len(allTables)}

\* The names a caller may put in a request: every catalog name and one name
\* that is in no catalog.
RequestNames == CatalogNames \cup {"widgets"}

RECURSIVE SeqsUpTo(_, _)
SeqsUpTo(S, n) ==
  IF n = 0 THEN {<<>>}
  ELSE LET shorter == SeqsUpTo(S, n - 1)
       IN  shorter \cup {Append(q, x) : q \in shorter, x \in S}

Requests == SeqsUpTo(RequestNames, MaxRequest)

\* ------------------------------------------------------ emitted text
\* Emitted text is kept as the pieces the template literals join: a file is a
\* sequence of blocks, a block a sequence of declarations, a declaration's
\* code a sequence of tokens; joining the tokens' text gives the source text.
Tok(part, text) == [part |-> part, text |-> text]

Decl(name, code) == [name |-> name, code |-> code]

Block(kind, name, items) == [kind |-> kind, name |-> name, items |-> items]

\* <<f(s[1]), ..., f(s[n])>> for a sequence s: Array.prototype.map.
Map(f(_), s) == [i \in 1..Len(s) |-> f(s[i])]

RECURSIVE Flatten(_)
Flatten(ss) == IF ss = <<>> THEN <<>> ELSE Head(ss) \o Flatten(Tail(ss))

Range(s) == {s[i] : i \in 1..Len(s)}

\* new Set(seed) after add(v) for each v of values, as Array.from lists it:
\* insertion order, a value kept where it was first added.
SetAddAll(seed, values) ==
  LET all == seed \o values
      first == {i \in 1..Len(all) : \A j \in 1..(i - 1) : all[j] # all[i]}
      nth(k) == CHOOSE i \in first : Cardinality({j \in first : j <= i}) = k
  IN  [k \in 1..Cardinality(first) |-> all[nth(k)]]

\* str.charAt(0).toUpperCase() + str.slice(1), on the strings that reach it:
\* the display names and the onDelete actions.  Strings are atomic here, so
\* the first-letter change is tabulated; a string that already starts with a
\* capital is returned as it is.
capitalize(str) ==
  CASE str = "widget"   -> "Widget"
    [] str = "cascade"  -> "Cascade"
    [] str = "set null" -> "Set null"
    [] str = "restrict" -> "Restrict"
    [] OTHER            -> str

\* ---------------------------------------------------- Drizzle generator
getDrizzleFieldType(field) ==
  CASE field.type = "uuid"    -> "text"
    [] field.type = "string"  -> "text"
    [] field.type = "text"    -> "text"
    [] field.type = "number"  -> "integer"
    [] field.type = "boolean" -> "boolean"
    [] field.type = "date"    -> "timestamp"
    [] field.type = "json"    -> "json"
    [] OTHER                  -> "text"

\* The reference clause of a column: .references(() => t.f[, { onDelete }]).
drizzleReferences(field) ==
  IF hasReferences(field)
  THEN << Tok("references",
              ".references(() => " \o field.references.table \o "."
              \o field.references.field
              \o (IF field.references.onDelete # ""
                  THEN ", { onDelete: '" \o field.references.onDelete \o "' }"
                  ELSE "")
              \o ")") >>
  ELSE << >>

\* generateDrizzleField with the default clause chained before .notNull(),
\* the way the preset templates write createdAt.
generateDrizzleField_DefaultBeforeNotNull(field, database) ==
     << Tok("type", getDrizzleFieldType(field)),
        Tok("name", "('" \o field.name \o "'") >>
  \o (IF field.length # 0
      THEN << Tok("length", ", { length: " \o ToString(field.length) \o " }") >>
      ELSE << >>)
  \o << Tok("close", ")") >>
  \o (IF field.isPrimaryKey THEN << Tok("primaryKey", ".primaryKey()") >> ELSE << >>)
  \o (IF field.default # NoDefault
      THEN IF field.default = Default("string", "now")
           THEN << Tok("default", ".defaultNow()") >>
           ELSE IF field.default.kind = "string"
           THEN << Tok("default", ".default('" \o field.default.text \o "')") >>
           ELSE << Tok("default", ".default(" \o field.default.text \o ")") >>
      ELSE << >>)
  \o (IF field.required /\ ~field.isPrimaryKey
      THEN << Tok("notNull", ".notNull()") >> ELSE << >>)
  \o (IF field.unique THEN << Tok("unique", ".unique()") >> ELSE << >>)
  \o (IF field.isPrimaryKey /\ field.type = "uuid"
      THEN << Tok("defaultFn", ".$defaultFn(() => crypto.randomUUID())") >>
      ELSE << >>)
  \o drizzleReferences(field)

\* generateDrizzleField that writes every string default as a quoted literal,
\* the reserved token now included.
generateDrizzleField_NowLiteral(field, database) ==
     << Tok("type", getDrizzleFieldType(field)),
        Tok("name", "('" \o field.name \o "'") >>
  \o (IF field.length # 0
      THEN << Tok("length", ", { length: " \o ToString(field.length) \o " }") >>
      ELSE << >>)
  \o << Tok("close", ")") >>
  \o (IF field.isPrimaryKey THEN << Tok("primaryKey", ".primaryKey()") >> ELSE << >>)
  \o (IF field.required /\ ~field.isPrimaryKey
      THEN << Tok("notNull", ".notNull()") >> ELSE << >>)
  \o (IF field.unique THEN << Tok("unique", ".unique()") >> ELSE << >>)
  \o (IF field.default # NoDefault
      THEN IF field.default.kind = "string"
           THEN << Tok("default", ".default('" \o field.default.text \o "')") >>
           ELSE << Tok("default", ".default(" \o field.default.text \o ")") >>
      ELSE << >>)
  \o (IF field.isPrimaryKey /\ field.type = "uuid"
      THEN << Tok("defaultFn", ".$defaultFn(() => crypto.randomUUID())") >>
      ELSE << >>)
  \o drizzleReferences(field)

\* generateDrizzleField that leaves .unique() out of an sqlite schema.
generateDrizzleField_SqliteNoUnique(field, database) ==
     << Tok("type", getDrizzleFieldType(field)),
        Tok("name", "('" \o field.name \o "'") >>
  \o (IF field.length # 0
      THEN << Tok("length", ", { length: " \o ToString(field.length) \o " }") >>
      ELSE << >>)
  \o << Tok("close", ")") >>
  \o (IF field.isPrimaryKey THEN << Tok("primaryKey", ".primaryKey()") >> ELSE << >>)
  \o (IF field.required /\ ~field.isPrimaryKey
      THEN << Tok("notNull", ".notNull()") >> ELSE << >>)
  \o (IF field.unique /\ database # "sqlite"
      THEN << Tok("unique", ".unique()") >> ELSE << >>)
  \o (IF field.default # NoDefault
      THEN IF field.default = Default("string", "now")
           THEN << Tok("default", ".defaultNow()") >>
           ELSE IF field.default.kind = "string"
           THEN << Tok("default", ".default('" \o field.default.text \o "')") >>
           ELSE << Tok("default", ".default(" \o field.default.text \o ")") >>
      ELSE << >>)
  \o (IF field.isPrimaryKey /\ field.type = "uuid"
      THEN << Tok("defaultFn", ".$defaultFn(() => crypto.randomUUID())") >>
      ELSE << >>)
  \o drizzleReferences(field)

generateDrizzleField(field, database) ==
     << Tok("type", getDrizzleFieldType(field)),
        Tok("name", "('" \o field.name \o "'") >>
  \o (IF field.length # 0
      THEN << Tok("length", ", { length: " \o ToString(field.length) \o " }") >>
      ELSE << >>)
  \o << Tok("close", ")") >>
  \o (IF field.isPrimaryKey THEN << Tok("primaryKey", ".primaryKey()") >> ELSE << >>)
  \o (IF field.required /\ ~field.isPrimaryKey
      THEN << Tok("notNull", ".notNull()") >> ELSE << >>)
  \o (IF field.unique THEN << Tok("unique", ".unique()") >> ELSE << >>)
  \o (IF field.default # NoDefault
      THEN IF field.default = Default("string", "now")
           THEN << Tok("default", ".defaultNow()") >>
           ELSE IF field.default.kind = "string"
           THEN << Tok("default", ".default('" \o field.default.text \o "')") >>
           ELSE << Tok("default", ".default(" \o field.default.text \o ")") >>
      ELSE << >>)
  \o (IF field.isPrimaryKey /\ field.type = "uuid"
      THEN << Tok("defaultFn", ".$defaultFn(() => crypto.randomUUID())") >>
      ELSE << >>)
  \o drizzleReferences(field)

\* One entry of a relations(...) block.  A table symbol the entry names is a
\* token of its own, part "symbol".
drizzleRelationDef(table, rel) ==
  IF rel.type = "one-to-many"
  THEN Decl(rel.fieldName,
            << Tok("call", "many("), Tok("symbol", rel.toTable), Tok("close", "),") >>)
  ELSE IF rel.type = "many-to-one"
  THEN Decl(rel.fieldName,
            << Tok("call", "one("), Tok("symbol", rel.toTable),
               Tok("fields", ", { fields: ["), Tok("symbol", table.name),
               Tok("column", "." \o rel.fieldName \o "Id], references: ["),
               Tok("symbol", rel.toTable), Tok("close", ".id], }),") >>)
  ELSE Decl("", << >>)

\* The initial members of fieldTypes.
drizzleFieldTypesSeed == << "text", "timestamp" >>

generateDrizzleTables(tables, database) ==
  LET dbImport == IF database = "postgresql" THEN "pg-core"
                  ELSE IF database = "mysql" THEN "mysql-core" ELSE "sqlite-core"
      tableFunc == IF database = "postgresql" THEN "pgTable"
                   ELSE IF database = "mysql" THEN "mysqlTable" ELSE "sqliteTable"
      \* drizzleType.split("(")[0]: no name getDrizzleFieldType returns holds
      \* a "(", so the base type is the whole name.
      typesOf(table) == Map(getDrizzleFieldType, table.fields)
      fieldTypes == SetAddAll(drizzleFieldTypesSeed, Flatten(Map(typesOf, tables)))
      importName(n) == Decl(n, << >>)
      imports == Block("import", "drizzle-orm/" \o dbImport,
                       Map(importName, <<tableFunc>> \o fieldTypes))
      fieldDecl(field) == Decl(field.name, generateDrizzleField(field, database))
      tableDefinition(table) == Block("table", table.name, Map(fieldDecl, table.fields))
      withRelations(t) == Len(t.relations) > 0
      hasRelations == \E i \in 1..Len(tables) : withRelations(tables[i])
      relationBlock(table) ==
        LET relationDef(rel) == drizzleRelationDef(table, rel)
        IN  Block("relations", table.name, Map(relationDef, table.relations))
      relationsCode ==
        IF hasRelations
        THEN << Block("import", "drizzle-orm", << Decl("relations", << >>) >>) >>
             \o Map(relationBlock, SelectSeq(tables, withRelations))
        ELSE << >>
  IN  << imports >> \o Map(tableDefinition, tables) \o relationsCode

\* ----------------------------------------------------- Prisma generator
getPrismaType(field) ==
  CASE field.type = "uuid"    -> "String"
    [] field.type = "string"  -> "String"
    [] field.type = "text"    -> "String"
    [] field.type = "number"  -> "Int"
    [] field.type = "boolean" -> "Boolean"
    [] field.type = "date"    -> "DateTime"
    [] field.type = "json"    -> "Json"
    [] OTHER                  -> "String"

\* generatePrismaField that marks a field optional whenever required is
\* unset, a primary key included.
generatePrismaField_OptionalKey(field) ==
     << Tok("name", field.name), Tok("type", getPrismaType(field)) >>
  \o (IF ~field.required THEN << Tok("optional", "?") >> ELSE << >>)
  \o (IF field.isPrimaryKey
      THEN IF field.type = "uuid"
           THEN << Tok("id", "@id @default(uuid())") >>
           ELSE IF field.isAutoIncrement
           THEN << Tok("id", "@id @default(autoincrement())") >>
           ELSE << Tok("id", "@id") >>
      ELSE << >>)
  \o (IF field.unique /\ ~field.isPrimaryKey
      THEN << Tok("unique", "@unique") >> ELSE << >>)
  \o (IF field.default # NoDefault /\ ~field.isPrimaryKey
      THEN IF field.default = Default("string", "now")
           THEN << Tok("default", "@default(now())") >>
           ELSE IF field.default.kind = "string"
           THEN << Tok("default", "@default(\"" \o field.default.text \o "\")") >>
           ELSE << Tok("default", "@default(" \o field.default.text \o ")") >>
      ELSE << >>)
  \o (IF hasReferences(field)
      THEN << Tok("relation",
                  "@relation(fields: [" \o field.name \o "], references: ["
                  \o field.references.field \o "]") >>
           \o (IF field.references.onDelete # ""
               THEN << Tok("onDelete",
                           ", onDelete: " \o capitalize(field.references.onDelete)) >>
               ELSE << >>)
           \o << Tok("relationClose", ")") >>
      ELSE << >>)

generatePrismaField(field) ==
     << Tok("name", field.name), Tok("type", getPrismaType(field)) >>
  \o (IF ~field.required /\ ~field.isPrimaryKey
      THEN << Tok("optional", "?") >> ELSE << >>)
  \o (IF field.isPrimaryKey
      THEN IF field.type = "uuid"
           THEN << Tok("id", "@id @default(uuid())") >>
           ELSE IF field.isAutoIncrement
           THEN << Tok("id", "@id @default(autoincrement())") >>
           ELSE << Tok("id", "@id") >>
      ELSE << >>)
  \o (IF field.unique /\ ~field.isPrimaryKey
      THEN << Tok("unique", "@unique") >> ELSE << >>)
  \o (IF field.default # NoDefault /\ ~field.isPrimaryKey
      THEN IF field.default = Default("string", "now")
           THEN << Tok("default", "@default(now())") >>
           ELSE IF field.default.kind = "string"
           THEN << Tok("default", "@default(\"" \o field.default.text \o "\")") >>
           ELSE << Tok("default", "@default(" \o field.default.text \o ")") >>
      ELSE << >>)
  \o (IF hasReferences(field)
      THEN << Tok("relation",
                  "@relation(fields: [" \o field.name \o "], references: ["
                  \o field.references.field \o "]") >>
           \o (IF field.references.onDelete # ""
               THEN << Tok("onDelete",
                           ", onDelete: " \o capitalize(field.references.onDelete)) >>
               ELSE << >>)
           \o << Tok("relationClose", ")") >>
      ELSE << >>)

\* generatePrismaTables that lists the models in the reverse of the input
\* order.
generatePrismaTables_ModelsReversed(tables, database) ==
  LET provider == IF database = "postgresql" THEN "postgresql"
                  ELSE IF database = "mysql" THEN "mysql" ELSE "sqlite"
      fieldDecl(field) == Decl(field.name, generatePrismaField(field))
      index(f) == Decl(f.name, << Tok("index", "@@index([" \o f.name \o "])") >>)
      model(table) ==
        Block("model", capitalize(table.displayName),
              Map(fieldDecl, table.fields)
              \o Map(index, SelectSeq(table.fields, hasReferences)))
  IN  << Block("datasource", provider, << >>),
         Block("generator", "prisma-client-js", << >>) >>
      \o [k \in 1..Len(tables) |-> model(tables[Len(tables) + 1 - k])]

generatePrismaTables(tables, database) ==
  LET provider == IF database = "postgresql" THEN "postgresql"
                  ELSE IF database = "mysql" THEN "mysql" ELSE "sqlite"
      fieldDecl(field) == Decl(field.name, generatePrismaField(field))
      index(f) == Decl(f.name, << Tok("index", "@@index([" \o f.name \o "])") >>)
      model(table) ==
        Block("model", capitalize(table.displayName),
              Map(fieldDecl, table.fields)
              \o Map(index, SelectSeq(table.fields, hasReferences)))
  IN  << Block("datasource", provider, << >>),
         Block("generator", "prisma-client-js", << >>) >>
      \o Map(model, tables)

\* ----------------------------------------------------- Kysely generator
getKyselyType_DefaultUnknown(field) ==
  CASE field.type = "uuid"    -> "string"
    [] field.type = "string"  -> "string"
    [] field.type = "text"    -> "string"
    [] field.type = "number"  -> "number"
    [] field.type = "boolean" -> "boolean"
    [] field.type = "date"    -> "Date"
    [] field.type = "json"    -> "unknown"
    [] OTHER                  -> "unknown"

getKyselyType(field) ==
  CASE field.type = "uuid"    -> "string"
    [] field.type = "string"  -> "string"
    [] field.type = "text"    -> "string"
    [] field.type = "number"  -> "number"
    [] field.type = "boolean" -> "boolean"
    [] field.type = "date"    -> "Date"
    [] field.type = "json"    -> "unknown"
    [] OTHER                  -> "string"

\* The names of the import statement of a Kysely schema.
kyselyImports == << "Generated", "Insertable", "Selectable", "Updateable" >>

\* generateKyselyTables without the Updateable type of a table.
generateKyselyTables_NoUpdateType(tables, database) ==
  LET importName(n) == Decl(n, << >>)
      fieldDecl(field) ==
        Decl(field.name,
             (IF field.isPrimaryKey /\ field.isAutoIncrement
              THEN << Tok("helper", "Generated"), Tok("open", "<"),
                      Tok("type", getKyselyType(field)), Tok("close", ">") >>
              ELSE << Tok("type", getKyselyType(field)) >>)
             \o (IF ~field.required /\ ~field.isPrimaryKey
                 THEN << Tok("nullable", " | null") >> ELSE << >>))
      derived(name, helper, tableName) ==
        Block("type", name,
              << Decl(name, << Tok("helper", helper), Tok("open", "<"),
                               Tok("symbol", tableName \o "Table"), Tok("close", ">") >>) >>)
      interfaces(table) ==
        LET tableName == capitalize(table.displayName)
        IN  << Block("interface", tableName \o "Table", Map(fieldDecl, table.fields)),
               derived(tableName, "Selectable", tableName),
               derived("New" \o tableName, "Insertable", tableName) >>
      dbField(t) ==
        Decl(t.name, << Tok("symbol", capitalize(t.displayName) \o "Table") >>)
  IN  << Block("import", "kysely", Map(importName, kyselyImports)) >>
      \o Flatten(Map(interfaces, tables))
      \o << Block("interface", "Database", Map(dbField, tables)) >>

generateKyselyTables(tables, database) ==
  LET importName(n) == Decl(n, << >>)
      fieldDecl(field) ==
        Decl(field.name,
             (IF field.isPrimaryKey /\ field.isAutoIncrement
              THEN << Tok("helper", "Generated"), Tok("open", "<"),
                      Tok("type", getKyselyType(field)), Tok("close", ">") >>
              ELSE << Tok("type", getKyselyType(field)) >>)
             \o (IF ~field.required /\ ~field.isPrimaryKey
                 THEN << Tok("nullable", " | null") >> ELSE << >>))
      derived(name, helper, tableName) ==
        Block("type", name,
              << Decl(name, << Tok("helper", helper), Tok("open", "<"),
                               Tok("symbol", tableName \o "Table"), Tok("close", ">") >>) >>)
      interfaces(table) ==
        LET tableName == capitalize(table.displayName)
        IN  << Block("interface", tableName \o "Table", Map(fieldDecl, table.fields)),
               derived(tableName, "Selectable", tableName),
               derived("New" \o tableName, "Insertable", tableName),
               derived(tableName \o "Update", "Updateable", tableName) >>
      dbField(t) ==
        Decl(t.name, << Tok("symbol", capitalize(t.displayName) \o "Table") >>)
  IN  << Block("import", "kysely", Map(importName, kyselyImports)) >>
      \o Flatten(Map(interfaces, tables))
      \o << Block("interface", "Database", Map(dbField, tables)) >>

\* ------------------------------------------------------------ main export
Orms == {"drizzle", "prisma", "kysely"}

Databases == {"postgresql", "mysql", "sqlite"}

\* What a call generateSchemaForORM(orm, tables, database) ends with: the
\* returned text, or the one Error the function throws (threw # "").
Returned(orm, database, names, blocks) ==
  [orm |-> orm, database |-> database, tables |-> names, threw |-> "", blocks |-> blocks]

Threw(orm, database, names, message) ==
  [orm |-> orm, database |-> database, tables |-> names, threw |-> message, blocks |-> << >>]

generateSchemaForORM(orm, tables, database) ==
  LET names == [i \in 1..Len(tables) |-> tables[i].name]
  IN  CASE orm = "drizzle" -> Returned(orm, database, names, generateDrizzleTables(tables, database))
        [] orm = "prisma"  -> Returned(orm, database, names, generatePrismaTables(tables, database))
        [] orm = "kysely"  -> Returned(orm, database, names, generateKyselyTables(tables, database))
        [] OTHER           -> Threw(orm, database, names, "Unsupported ORM: " \o orm)

\* ------------------------------------------------------ preset templates
\* The template argument of a preset function: the Template type, and the
\* one other id a preset of schemaTemplates has, which no branch matches.
Templates == {"empty", "starter", "blog", "ecommerce", "saas", "custom"}

\* getDrizzleSchema returns fixed text per template, with the table function,
\* the import module and the id column spliced in.  A commented-out example
\* is no declaration and is left out.
getDrizzleSchema(template, database) ==
  LET dbImport == IF database = "postgresql" THEN "pg-core"
                  ELSE IF database = "mysql" THEN "mysql-core" ELSE "sqlite-core"
      tableFunc == IF database = "postgresql" THEN "pgTable"
                   ELSE IF database = "mysql" THEN "mysqlTable" ELSE "sqliteTable"
      importName(n) == Decl(n, << >>)
      imports == Block("import", "drizzle-orm/" \o dbImport,
                       Map(importName, << tableFunc, "text", "timestamp", "integer", "boolean" >>))
      col(type, column) ==
        << Tok("type", type), Tok("name", "('" \o column \o "'"), Tok("close", ")") >>
      notNull == << Tok("notNull", ".notNull()") >>
      unique == << Tok("unique", ".unique()") >>
      defaultNow == << Tok("default", ".defaultNow()") >>
      default(text) == << Tok("default", ".default(" \o text \o ")") >>
      references(target, options) ==
        << Tok("references", ".references(() => " \o target \o options \o ")") >>
      cascade == ", { onDelete: 'cascade' }"
      idType ==
        IF database = "sqlite"
        THEN col("integer", "id") \o << Tok("primaryKey", ".primaryKey({ autoIncrement: true })") >>
        ELSE col("text", "id")
             \o << Tok("primaryKey", ".primaryKey()"),
                   Tok("defaultFn", ".$defaultFn(() => crypto.randomUUID())") >>
      id == Decl("id", idType)
      email == Decl("email", col("text", "email") \o notNull \o unique)
      name == Decl("name", col("text", "name"))
      requiredName == Decl("name", col("text", "name") \o notNull)
      uniqueName == Decl("name", col("text", "name") \o notNull \o unique)
      slug == Decl("slug", col("text", "slug") \o notNull \o unique)
      createdAt == Decl("createdAt", col("timestamp", "created_at") \o defaultNow \o notNull)
      updatedAt == Decl("updatedAt", col("timestamp", "updated_at") \o defaultNow \o notNull)
      foreignKey(field, column, target, options) ==
        Decl(field, col("text", column) \o notNull \o references(target, options))
      table(tableName, columns) == Block("table", tableName, columns)
  IN  CASE template = "empty" -> << imports >>
        [] template = "starter" ->
             << imports,
                table("users", << id, email, name, createdAt, updatedAt >>) >>
        [] template = "blog" ->
             << imports,
                table("users", << id, email, name, createdAt, updatedAt >>),
                table("posts",
                  << id,
                     Decl("title", col("text", "title") \o notNull),
                     slug,
                     Decl("content", col("text", "content")),
                     Decl("published", col("boolean", "published") \o default("false")),
                     foreignKey("authorId", "author_id", "users.id", cascade),
                     createdAt, updatedAt >>),
                table("comments",
                  << id,
                     Decl("content", col("text", "content") \o notNull),
                     foreignKey("postId", "post_id", "posts.id", cascade),
                     foreignKey("authorId", "author_id", "users.id", cascade),
                     createdAt >>),
                table("categories", << id, uniqueName, slug, createdAt >>) >>
        [] template = "ecommerce" ->
             << imports,
                Block("import", "drizzle-orm/" \o dbImport, << importName("json") >>),
                table("users", << id, email, name, createdAt >>),
                table("products",
                  << id, requiredName, slug,
                     Decl("description", col("text", "description")),
                     Decl("price", col("integer", "price") \o notNull),
                     Decl("inventory", col("integer", "inventory") \o default("0")),
                     Decl("images", col("json", "images")),
                     createdAt >>),
                table("orders",
                  << id,
                     Decl("orderNumber", col("text", "order_number") \o notNull \o unique),
                     foreignKey("userId", "user_id", "users.id", ""),
                     Decl("status", col("text", "status") \o notNull \o default("'pending'")),
                     Decl("total", col("integer", "total") \o notNull),
                     createdAt >>) >>
        [] template = "saas" ->
             << imports,
                table("users", << id, email, name, createdAt >>),
                table("organizations",
                  << id, requiredName, slug,
                     Decl("plan", col("text", "plan") \o default("'free'")),
                     createdAt >>),
                table("memberships",
                  << id,
                     foreignKey("userId", "user_id", "users.id", cascade),
                     foreignKey("organizationId", "organization_id", "organizations.id", cascade),
                     Decl("role", col("text", "role") \o notNull \o default("'member'")),
                     createdAt >>),
                table("subscriptions",
                  << id,
                     foreignKey("organizationId", "organization_id", "organizations.id", cascade),
                     Decl("plan", col("text", "plan") \o notNull),
                     Decl("status", col("text", "status") \o notNull \o default("'active'")),
                     Decl("currentPeriodEnd", col("timestamp", "current_period_end") \o notNull),
                     createdAt >>) >>
        [] OTHER -> << imports >>

\* getPrismaSchema(template, database): the Prisma schema of a preset.  A
\* model is a block of its fields, its relation fields and its indexes.
getPrismaSchema(template, database) ==
  LET provider == IF database = "postgresql" THEN "postgresql"
                  ELSE IF database = "mysql" THEN "mysql" ELSE "sqlite"
      baseSchema == << Block("datasource", provider, << >>),
                       Block("generator", "prisma-client-js", << >>) >>
      scalar(n, type) == << Tok("name", n), Tok("type", type) >>
      optional == << Tok("optional", "?") >>
      unique == << Tok("unique", "@unique") >>
      default(text) == << Tok("default", "@default(" \o text \o ")") >>
      id == Decl("id", scalar("id", "String") \o << Tok("id", "@id @default(uuid())") >>)
      email == Decl("email", scalar("email", "String") \o unique)
      name == Decl("name", scalar("name", "String") \o optional)
      requiredName == Decl("name", scalar("name", "String"))
      uniqueName == Decl("name", scalar("name", "String") \o unique)
      slug == Decl("slug", scalar("slug", "String") \o unique)
      createdAt == Decl("createdAt", scalar("createdAt", "DateTime") \o default("now()"))
      updatedAt == Decl("updatedAt", scalar("updatedAt", "DateTime")
                                     \o << Tok("updatedAt", "@updatedAt") >>)
      list(n, target) == Decl(n, scalar(n, target) \o << Tok("list", "[]") >>)
      relation(n, target, key, options) ==
        Decl(n, scalar(n, target)
                \o << Tok("relation", "@relation(fields: [" \o key \o "], references: [id]"),
                      Tok("onDelete", options), Tok("relationClose", ")") >>)
      cascade == ", onDelete: Cascade"
      key(n) == Decl(n, scalar(n, "String"))
      index(n) == Decl(n, << Tok("index", "@@index([" \o n \o "])") >>)
      model(modelName, entries) == Block("model", modelName, entries)
  IN  CASE template = "empty" -> baseSchema
        [] template = "starter" ->
             baseSchema
             \o << model("User", << id, email, name, createdAt, updatedAt >>) >>
        [] template = "blog" ->
             baseSchema
             \o << model("User",
                     << id, email, name, list("posts", "Post"), list("comments", "Comment"),
                        createdAt, updatedAt >>),
                   model("Post",
                     << id,
                        Decl("title", scalar("title", "String")),
                        slug,
                        Decl("content", scalar("content", "String") \o optional),
                        Decl("published", scalar("published", "Boolean") \o default("false")),
                        relation("author", "User", "authorId", cascade),
                        key("authorId"),
                        list("comments", "Comment"),
                        createdAt, updatedAt,
                        index("authorId") >>),
                   model("Comment",
                     << id,
                        Decl("content", scalar("content", "String")),
                        relation("post", "Post", "postId", cascade),
                        key("postId"),
                        relation("author", "User", "authorId", cascade),
                        key("authorId"),
                        createdAt,
                        index("postId"), index("authorId") >>),
                   model("Category", << id, uniqueName, slug, createdAt >>) >>
        [] template = "ecommerce" ->
             baseSchema
             \o << model("User", << id, email, name, list("orders", "Order"), createdAt >>),
                   model("Product",
                     << id, requiredName, slug,
                        Decl("description", scalar("description", "String") \o optional),
                        Decl("price", scalar("price", "Int")),
                        Decl("inventory", scalar("inventory", "Int") \o default("0")),
                        Decl("images", scalar("images", "Json") \o optional),
                        createdAt >>),
                   model("Order",
                     << id,
                        Decl("orderNumber", scalar("orderNumber", "String") \o unique),
                        relation("user", "User", "userId", ""),
                        key("userId"),
                        Decl("status", scalar("status", "String") \o default("\"pending\"")),
                        Decl("total", scalar("total", "Int")),
                        createdAt,
                        index("userId") >>) >>
        [] template = "saas" ->
             baseSchema
             \o << model("User",
                     << id, email, name, list("memberships", "Membership"), createdAt >>),
                   model("Organization",
                     << id, requiredName, slug,
                        Decl("plan", scalar("plan", "String") \o default("\"free\"")),
                        list("memberships", "Membership"),
                        list("subscriptions", "Subscription"),
                        createdAt >>),
                   model("Membership",
                     << id,
                        relation("user", "User", "userId", cascade),
                        key("userId"),
                        relation("organization", "Organization", "organizationId", cascade),
                        key("organizationId"),
                        Decl("role", scalar("role", "String") \o default("\"member\"")),
                        createdAt,
                        index("userId"), index("organizationId") >>),
                   model("Subscription",
                     << id,
                        relation("organization", "Organization", "organizationId", cascade),
                        key("organizationId"),
                        Decl("plan", scalar("plan", "String")),
                        Decl("status", scalar("status", "String") \o default("\"active\"")),
                        Decl("currentPeriodEnd", scalar("currentPeriodEnd", "DateTime")),
                        createdAt,
                        index("organizationId") >>) >>
        [] OTHER -> baseSchema

\* getKyselySchema(template): the Kysely interfaces of a preset, closed by
\* the Database interface that lists the tables.  The function takes no
\* dialect, and ecommerce and saas reach its last return.
getKyselySchema(template) ==
  LET imports == Block("import", "kysely", << Decl("Generated", << >>) >>)
      generated(n, type) ==
        Decl(n, << Tok("helper", "Generated"), Tok("open", "<"),
                   Tok("type", type), Tok("close", ">") >>)
      plain(n, type) == Decl(n, << Tok("type", type) >>)
      nullable(n, type) == Decl(n, << Tok("type", type), Tok("nullable", " | null") >>)
      id == generated("id", "string")
      createdAt == generated("created_at", "Date")
      updatedAt == generated("updated_at", "Date")
      UsersTable ==
        Block("interface", "UsersTable",
              << id, plain("email", "string"), nullable("name", "string"),
                 createdAt, updatedAt >>)
      entry(tableName, interface) == Decl(tableName, << Tok("symbol", interface) >>)
      Database(entries) == Block("interface", "Database", entries)
  IN  CASE template = "empty" -> << imports, Database(<< >>) >>
        [] template = "starter" ->
             << imports, UsersTable, Database(<< entry("users", "UsersTable") >>) >>
        [] template = "blog" ->
             << imports,
                UsersTable,
                Block("interface", "PostsTable",
                      << id, plain("title", "string"), plain("slug", "string"),
                         nullable("content", "string"), generated("published", "boolean"),
                         plain("author_id", "string"), createdAt, updatedAt >>),
                Block("interface", "CommentsTable",
                      << id, plain("content", "string"), plain("post_id", "string"),
                         plain("author_id", "string"), createdAt >>),
                Block("interface", "CategoriesTable",
                      << id, plain("name", "string"), plain("slug", "string"), createdAt >>),
                Database(<< entry("users", "UsersTable"), entry("posts", "PostsTable"),
                            entry("comments", "CommentsTable"),
                            entry("categories", "CategoriesTable") >>) >>
        [] OTHER -> << imports, Database(<< >>) >>

\* ------------------------------------------------- package installation
PackageManagers == {"npm", "bun"}

\* A command handed to execa(file, args).
execa(file, args) == [file |-> file, args |-> args]

\* getDriverPackage(database, orm): Prisma brings its drivers.
getDriverPackage(database, orm) ==
  IF orm = "prisma" THEN ""
  ELSE CASE database = "postgresql" -> IF orm = "kysely" THEN "pg" ELSE "postgres"
         [] database = "mysql"      -> "mysql2"
         [] database = "sqlite"     -> "better-sqlite3"

\* installDependencies that adds a package of its own when the studio is
\* asked for.
installDependencies_StudioPackage(pm, orm, database, includeStudio) ==
  LET deps == CASE orm = "drizzle" -> << "drizzle-orm", getDriverPackage(database, orm) >>
                [] orm = "prisma"  -> << "@prisma/client" >>
                [] orm = "kysely"  -> << "kysely", getDriverPackage(database, orm) >>
                [] OTHER           -> << >>
      devDeps == CASE orm = "drizzle" ->
                        IF includeStudio THEN << "drizzle-kit", "drizzle-studio" >>
                        ELSE << "drizzle-kit" >>
                   [] orm = "prisma"  -> << "prisma" >>
                   [] OTHER           -> << >>
      addCmd == IF pm = "npm" THEN "install" ELSE "add"
      devFlag == IF pm = "npm" THEN "--save-dev" ELSE "-D"
  IN     (IF Len(deps) > 0 THEN << execa(pm, << addCmd >> \o deps) >> ELSE << >>)
      \o (IF Len(devDeps) > 0 THEN << execa(pm, << addCmd, devFlag >> \o devDeps) >> ELSE << >>)

\* installDependencies(pm, orm, database, includeStudio): the commands it
\* awaits, in order.
installDependencies(pm, orm, database, includeStudio) ==
  LET deps == CASE orm = "drizzle" -> << "drizzle-orm", getDriverPackage(database, orm) >>
                [] orm = "prisma"  -> << "@prisma/client" >>
                [] orm = "kysely"  -> << "kysely", getDriverPackage(database, orm) >>
                [] OTHER           -> << >>
      devDeps == CASE orm = "drizzle" -> << "drizzle-kit" >>
                   [] orm = "prisma"  -> << "prisma" >>
                   [] OTHER           -> << >>
      addCmd == IF pm = "npm" THEN "install" ELSE "add"
      devFlag == IF pm = "npm" THEN "--save-dev" ELSE "-D"
  IN     (IF Len(deps) > 0 THEN << execa(pm, << addCmd >> \o deps) >> ELSE << >>)
      \o (IF Len(devDeps) > 0 THEN << execa(pm, << addCmd, devFlag >> \o devDeps) >> ELSE << >>)

\* The installDependencies(pm, database, includeStudio) of the Drizzle-only
\* package manager module: includeStudio adds nothing, drizzle-kit being
\* listed already.
installDrizzleDependencies(pm, database, includeStudio) ==
  LET driver == CASE database = "postgresql" -> "postgres"
                  [] database = "mysql"      -> "mysql2"
                  [] database = "sqlite"     -> "better-sqlite3"
      deps == << "drizzle-orm", driver >>
      devDeps == << "drizzle-kit" >>
      addCmd == IF pm = "npm" THEN "install" ELSE "add"
      devFlag == IF pm = "npm" THEN "--save-dev" ELSE "-D"
  IN  << execa(pm, << addCmd >> \o deps), execa(pm, << addCmd, devFlag >> \o devDeps) >>

\* ------------------------------------------------------------ file writing
\* dirname(path) for the paths the setups write.
dirname(path) ==
  CASE path = "src/lib/db/schema.ts"  -> "src/lib/db"
    [] path = "src/lib/db/migrate.ts" -> "src/lib/db"
    [] path = "src/lib/db.ts"         -> "src/lib"
    [] path = "src/lib/prisma.ts"     -> "src/lib"
    [] path = "prisma/schema.prisma"  -> "prisma"
    [] OTHER                          -> "."

\* The files generateDrizzleSetup, generatePrismaSetup and
\* generateKyselySetup hand to writeMultipleFiles, with the paths
\* resolvePaths("src") gives.
setupFiles(orm) ==
  CASE orm = "drizzle" ->
         << "src/lib/db/schema.ts", "src/lib/db.ts", "drizzle.config.ts",
            "src/lib/db/migrate.ts" >>
    [] orm = "prisma" -> << "prisma/schema.prisma", "src/lib/prisma.ts" >>
    [] orm = "kysely" ->
         << "src/lib/db/schema.ts", "src/lib/db.ts", "src/lib/db/migrate.ts" >>

\* The two writeMultipleFiles of the repository: Promise.all over the
\* files, and the loop that awaits each file in turn.
WriterVersions == {"all", "sequential"}

NoWriter ==
  [version |-> "none", files |-> << >>, at |-> << >>, dirs |-> {},
   settled |-> "pending", error |-> [message |-> "", names |-> ""]]

\* writeMultipleFiles(files) up to its first await: every writeFileWithDir
\* has begun its mkdir under Promise.all, the first one alone in the loop.
writeMultipleFiles(version, files) ==
  [ version |-> version,
    files   |-> files,
    at      |-> [k \in 1..Len(files) |->
                   IF version = "all" \/ k = 1 THEN "mkdir" ELSE "waiting"],
    dirs    |-> {},
    settled |-> IF Len(files) = 0 THEN "resolved" ELSE "pending",
    error   |-> [message |-> "", names |-> ""] ]

\* The Error a failed mkdir or writeFile of a file ends writeFileWithDir
\* with: the loop's writeFileWithDir wraps it and names the path it was
\* given, the other rethrows what node:fs threw.
writeError(version, path, operation) ==
  LET target == IF operation = "mkdir" THEN dirname(path) ELSE path
      cause == "EACCES: permission denied, " \o operation \o " '" \o target \o "'"
  IN  IF version = "sequential"
      THEN [message |-> "Failed to write file " \o path \o ": " \o cause, names |-> path]
      ELSE [message |-> cause, names |-> target]

\* ------------------------------------------------------- project detection
NoProject ==
  [databaseUrl |-> FALSE, database |-> "unknown", typescript |-> FALSE,
   existingOrm |-> "none", packageManager |-> "npm"]

\* What detection can find in a project: a DATABASE_URL or none, the
\* database type read from it, a tsconfig or none, an ORM already set up,
\* the package manager of the lock file.
Projects ==
  { p \in [ databaseUrl : BOOLEAN, database : Databases \cup {"unknown"},
            typescript : BOOLEAN, existingOrm : {"none", "drizzle", "prisma"},
            packageManager : PackageManagers ] :
      p.databaseUrl \/ p.database = "unknown" }

\* validateSetup(setup)
validateSetup(setup) ==
  IF ~setup.databaseUrl
  THEN [valid |-> FALSE,
        error |-> "No DATABASE_URL found in .env files. Please run @sidgaikwad/db-setup first."]
  ELSE IF setup.database = "unknown"
  THEN [valid |-> FALSE, error |-> "Could not detect database type from DATABASE_URL."]
  ELSE IF ~setup.typescript
  THEN [valid |-> FALSE,
        error |-> "This tool requires TypeScript. Please initialize TypeScript first (tsc --init)."]
  ELSE [valid |-> TRUE, error |-> ""]

NoConfig == [orm |-> "", database |-> "", includeStudio |-> FALSE]

\* main before it runs: no program started, nothing asked, nothing failed,
\* the first setup step next.
NoMain ==
  [program |-> "none", at |-> "start", confirmed |-> "unasked", failed |-> "",
   ranAtFailure |-> << >>, next |-> 1, exitCode |-> ""]

\* The steps of setupDrizzle and setupPrisma in order, each with what a
\* failure of it does: "exit" ends the process (process.exit(1), or a throw
\* that main catches), "swallowed" is caught inside the step, "ignored" is a
\* command status nobody reads.
setupSteps(orm, database) ==
  IF orm = "drizzle"
  THEN    << [name |-> "install", onFailure |-> "exit"],
             [name |-> "mkdir",   onFailure |-> "exit"],
             [name |-> "schema",  onFailure |-> "exit"],
             [name |-> "client",  onFailure |-> "exit"],
             [name |-> "config",  onFailure |-> "exit"] >>
       \o (IF database = "postgresql"
           THEN << [name |-> "migrate", onFailure |-> "exit"] >> ELSE << >>)
       \o << [name |-> "scripts",   onFailure |-> "swallowed"],
             [name |-> "migration", onFailure |-> "ignored"],
             [name |-> "complete",  onFailure |-> "none"] >>
  ELSE << [name |-> "install",  onFailure |-> "exit"],
          [name |-> "mkdir",    onFailure |-> "exit"],
          [name |-> "schema",   onFailure |-> "exit"],
          [name |-> "client",   onFailure |-> "exit"],
          [name |-> "scripts",  onFailure |-> "swallowed"],
          [name |-> "prismaGenerate", onFailure |-> "ignored"],
          [name |-> "complete", onFailure |-> "none"] >>

\* ------------------------------------------------------------------- state
VARIABLES
  request,     \* tableNames of the call in progress
  idx,         \* position of tableNames.forEach(addTable)
  stack,       \* the active addTable frames: [name, field], field the forEach position
  result,      \* result: the tables pushed so far (references into the catalog)
  added,       \* added: Set<string>
  pc,          \* "idle" | "running" | "done" | "overflow" | "emitted" | "preset"
  rerun,       \* TRUE while the call in progress re-resolves a returned list
  prevResult,  \* the list the previous call returned, when rerun
  artifact,    \* what generateSchemaForORM last returned
  schema,      \* what a preset function (getDrizzleSchema) last returned
  again,       \* the call the caller has repeated: "no" | "emit" | "call"
  first,       \* what the repeated call gave the first time: [result, artifact]
  returned,    \* the array the first call returned, as the caller has left it
  other,       \* a second call of getTablesWithDependencies, while it is not stepping
  interleaved, \* TRUE once two calls in progress have taken turns
  project,     \* what detectSetup / detectProject found
  config,      \* what the user chose: [orm, database, includeStudio]
  main,        \* main: [program, at, confirmed, failed, ranAtFailure, exitCode]
  steps,       \* the setup steps that have completed, in order
  installed,   \* the install commands that have completed, in order
  writer       \* the writeMultipleFiles call in progress

\* The state beside the one call and the one emission in progress.
\* The state of the CLI around the generator.
cli == << project, config, main, steps, installed, writer >>

elsewhere == << other, interleaved, cli >>

vars == <<request, idx, stack, result, added, pc, rerun, prevResult, artifact,
          schema, again, first, returned, catalog, presets, elsewhere>>

\* The state that no step of getTablesWithDependencies and no call of
\* generateSchemaForORM writes.
outside == << schema, again, first, returned, catalog, presets, elsewhere >>

\* A call of getTablesWithDependencies that has not begun: its tableNames,
\* its forEach position, its addTable frames, its result and its added.
NoCall ==
  [request |-> <<>>, idx |-> 1, stack |-> <<>>, result |-> <<>>, added |-> {}, pc |-> "idle"]

NoArtifact == [orm |-> "", database |-> "", tables |-> <<>>, threw |-> "", blocks |-> <<>>]

NoSchema == [orm |-> "", template |-> "", database |-> "", blocks |-> <<>>]

NoRun == [result |-> <<>>, artifact |-> NoArtifact]

Init ==
  /\ request = <<>>
  /\ idx = 1
  /\ stack = <<>>
  /\ result = <<>>
  /\ added = {}
  /\ pc = "idle"
  /\ rerun = FALSE
  /\ prevResult = <<>>
  /\ artifact = NoArtifact
  /\ schema = NoSchema
  /\ again = "no"
  /\ first = NoRun
  /\ returned = << >>
  /\ catalog = allTables
  /\ presets = schemaTemplates
  /\ other = NoCall
  /\ interleaved = FALSE
  /\ project = NoProject
  /\ config = NoConfig
  /\ main = NoMain
  /\ steps = << >>
  /\ installed = << >>
  /\ writer = NoWriter

\* ---------------------------------------------- getTablesWithDependencies
\* const result = []; const added = new Set(); tableNames.forEach(addTable)
Call ==
  /\ pc = "idle"
  /\ \E tableNames \in Requests : request' = tableNames
  /\ idx' = 1
  /\ stack' = <<>>
  /\ result' = <<>>
  /\ added' = {}
  /\ pc' = "running"
  /\ UNCHANGED <<rerun, prevResult, artifact>>
  /\ UNCHANGED outside

\* addTable without its first line, if (added.has(name)) return.
addTable_NoAddedCheck(name, callers) ==
  IF getTableByName(name) = undefined THEN stack' = callers /\ pc' = pc
  ELSE IF Len(callers) >= MaxStack THEN stack' = << >> /\ pc' = "overflow"
  ELSE stack' = Append(callers, [name |-> name, field |-> 1]) /\ pc' = pc

\* addTable without if (!table) return: table.fields of undefined throws.
addTable_NoUndefinedCheck(name, callers) ==
  IF name \in added THEN stack' = callers /\ pc' = pc
  ELSE IF getTableByName(name) = undefined THEN stack' = << >> /\ pc' = "typeerror"
  ELSE IF Len(callers) >= MaxStack THEN stack' = << >> /\ pc' = "overflow"
  ELSE stack' = Append(callers, [name |-> name, field |-> 1]) /\ pc' = pc

\* An invocation addTable(name) from a caller whose frames are `callers`:
\* the two early returns, the RangeError of a full call stack (it leaves
\* getTablesWithDependencies, which catches nothing), or a new frame.
addTable(name, callers) ==
  IF name \in added THEN stack' = callers /\ pc' = pc
  ELSE IF getTableByName(name) = undefined THEN stack' = callers /\ pc' = pc
  ELSE IF Len(callers) >= MaxStack THEN stack' = <<>> /\ pc' = "overflow"
  ELSE stack' = Append(callers, [name |-> name, field |-> 1]) /\ pc' = pc

\* What a caller has done to a list it was returned before it calls again:
\* a push (of a table of its own) or a pop.
Mutations(list) ==
  {Append(list, "widgets"), SubSeq(list, 1, Len(list) - 1)}

\* The caller makes the call it has made once more: the same tableNames,
\* with `added` kept from the call before (a Set hoisted out of the function).
CallAgain_KeepAdded ==
  /\ pc = "done"
  /\ again = "no"
  /\ ~rerun
  /\ again' = "call"
  /\ first' = [result |-> result, artifact |-> NoArtifact]
  /\ \E list \in Mutations(result) : returned' = list
  /\ idx' = 1
  /\ stack' = << >>
  /\ result' = << >>
  /\ added' = added
  /\ pc' = "running"
  /\ UNCHANGED <<request, rerun, prevResult, artifact, schema, catalog, presets, elsewhere>>

\* The repeated call with `result` hoisted out of the function: the call
\* goes on pushing onto the array the caller holds.
CallAgain_SharedResult ==
  /\ pc = "done"
  /\ again = "no"
  /\ ~rerun
  /\ again' = "call"
  /\ first' = [result |-> result, artifact |-> NoArtifact]
  /\ \E list \in Mutations(result) : returned' = list
  /\ idx' = 1
  /\ stack' = << >>
  /\ result' = returned'
  /\ added' = {}
  /\ pc' = "running"
  /\ UNCHANGED <<request, rerun, prevResult, artifact, schema, catalog, presets, elsewhere>>

\* The caller makes the call it has made once more, with the same tableNames:
\* const result = []; const added = new Set(); tableNames.forEach(addTable).
\* The array the first call returned stays with the caller, who may have
\* changed it; its contents at the return are kept for comparison.
CallAgain ==
  /\ pc = "done"
  /\ again = "no"
  /\ ~rerun
  /\ again' = "call"
  /\ first' = [result |-> result, artifact |-> NoArtifact]
  /\ \E list \in Mutations(result) : returned' = list
  /\ idx' = 1
  /\ stack' = << >>
  /\ result' = << >>
  /\ added' = {}
  /\ pc' = "running"
  /\ UNCHANGED <<request, rerun, prevResult, artifact, schema, catalog, presets, elsewhere>>

\* tableNames.forEach(addTable): the next requested name.
ForEachTable ==
  /\ pc = "running"
  /\ stack = <<>>
  /\ idx <= Len(request)
  /\ idx' = idx + 1
  /\ addTable(request[idx], <<>>)
  /\ UNCHANGED <<request, result, added, rerun, prevResult, artifact>>
  /\ UNCHANGED outside

\* table.fields.forEach that never follows a reference.
ForEachField_NoDependencies ==
  /\ pc = "running"
  /\ stack # <<>>
  /\ LET top == stack[Len(stack)]
     IN  /\ top.field <= Len(getTableByName(top.name).fields)
         /\ stack' = [stack EXCEPT ![Len(stack)].field = top.field + 1]
  /\ UNCHANGED <<request, idx, result, added, pc, rerun, prevResult, artifact>>
  /\ UNCHANGED outside

\* table.fields.forEach: the next field of the innermost frame; a field that
\* references a table not yet in `added` invokes addTable on it.
ForEachField ==
  /\ pc = "running"
  /\ stack # <<>>
  /\ LET top == stack[Len(stack)]
         table == getTableByName(top.name)
         callers == [stack EXCEPT ![Len(stack)].field = top.field + 1]
     IN  /\ top.field <= Len(table.fields)
         /\ LET field == table.fields[top.field]
            IN  IF hasReferences(field) /\ field.references.table \notin added
                THEN addTable(field.references.table, callers)
                ELSE stack' = callers /\ pc' = pc
  /\ UNCHANGED <<request, idx, result, added, rerun, prevResult, artifact>>
  /\ UNCHANGED outside

\* result.unshift(table) in place of result.push(table).
PushTable_Unshift ==
  /\ pc = "running"
  /\ stack # <<>>
  /\ LET top == stack[Len(stack)]
     IN  /\ top.field > Len(getTableByName(top.name).fields)
         /\ result' = << top.name >> \o result
         /\ added' = added \cup {top.name}
         /\ stack' = SubSeq(stack, 1, Len(stack) - 1)
  /\ UNCHANGED <<request, idx, pc, rerun, prevResult, artifact>>
  /\ UNCHANGED outside

\* result.push(table); added.add(name), once every field has been visited.
PushTable ==
  /\ pc = "running"
  /\ stack # <<>>
  /\ LET top == stack[Len(stack)]
     IN  /\ top.field > Len(getTableByName(top.name).fields)
         /\ result' = Append(result, top.name)
         /\ added' = added \cup {top.name}
         /\ stack' = SubSeq(stack, 1, Len(stack) - 1)
  /\ UNCHANGED <<request, idx, pc, rerun, prevResult, artifact>>
  /\ UNCHANGED outside

\* return result
Return ==
  /\ pc = "running"
  /\ stack = <<>>
  /\ idx > Len(request)
  /\ pc' = "done"
  /\ UNCHANGED <<request, idx, stack, result, added, rerun, prevResult, artifact>>
  /\ UNCHANGED outside

\* The caller resolves the names of the list it was returned:
\* getTablesWithDependencies(returned.map((t) => t.name)).
Reresolve ==
  /\ pc = "done"
  /\ ~rerun
  /\ again = "no"
  /\ request' = result
  /\ prevResult' = result
  /\ rerun' = TRUE
  /\ idx' = 1
  /\ stack' = <<>>
  /\ result' = <<>>
  /\ added' = {}
  /\ pc' = "running"
  /\ UNCHANGED artifact
  /\ UNCHANGED outside

\* ------------------------------------------------------------- emission
\* The definitions a caller can hand to an emitter: the catalog's and its own.
selectableTables == allTables \o << widgetTable >>

definitionOf(name) ==
  selectableTables[CHOOSE i \in 1..Len(selectableTables) : selectableTables[i].name = name]

SelectableNames == {selectableTables[i].name : i \in 1..Len(selectableTables)}

Selections == SeqsUpTo(SelectableNames, MaxSelected)

\* An ORM selector outside the ORM type reaches the switch's default.
EmitOrms == Orms \cup {"typeorm"}

\* generateSchemaForORM(orm, tables, database), tables a list of definitions
\* given by their names.
Emit(orm, names, database) ==
  /\ artifact' = generateSchemaForORM(orm, Map(definitionOf, names), database)
  /\ pc' = "emitted"
  /\ UNCHANGED <<request, idx, stack, result, added, rerun, prevResult>>
  /\ UNCHANGED outside

\* The list a resolver call returned is emitted.
EmitResolved ==
  /\ pc = "done"
  /\ \E orm \in EmitOrms, database \in Databases : Emit(orm, result, database)

\* A preset's table list is emitted as it stands.
EmitPreset ==
  /\ pc = "idle"
  /\ \E i \in 1..Len(presets), orm \in EmitOrms, database \in Databases :
       Emit(orm, presets[i].tables, database)

\* A list the caller selected (selectedTables) is emitted as it stands.
EmitSelected ==
  /\ pc = "idle"
  /\ \E names \in Selections, orm \in EmitOrms, database \in Databases :
       Emit(orm, names, database)

\* generateDrizzleSetup: the schema file of a Drizzle setup is the preset
\* text getDrizzleSchema(template, database).
generateDrizzleSetup ==
  /\ pc = "idle"
  /\ \E template \in Templates, database \in Databases :
       schema' = [ orm |-> "drizzle", template |-> template, database |-> database,
                   blocks |-> getDrizzleSchema(template, database) ]
  /\ pc' = "preset"
  /\ UNCHANGED <<request, idx, stack, result, added, rerun, prevResult, artifact,
                 again, first, returned, catalog, presets, elsewhere>>

\* generatePrismaSetup: the schema file of a Prisma setup made from a
\* preset is the text getPrismaSchema(template, database).
generatePrismaSetup ==
  /\ pc = "idle"
  /\ \E template \in Templates, database \in Databases :
       schema' = [ orm |-> "prisma", template |-> template, database |-> database,
                   blocks |-> getPrismaSchema(template, database) ]
  /\ pc' = "preset"
  /\ UNCHANGED <<request, idx, stack, result, added, rerun, prevResult, artifact,
                 again, first, returned, catalog, presets, elsewhere>>

\* generateKyselySetup: the schema file of a Kysely setup made from a
\* preset is the text getKyselySchema(template); the dialect goes to the
\* client and the migrator only.
generateKyselySetup ==
  /\ pc = "idle"
  /\ \E template \in Templates, database \in Databases :
       schema' = [ orm |-> "kysely", template |-> template, database |-> database,
                   blocks |-> getKyselySchema(template) ]
  /\ pc' = "preset"
  /\ UNCHANGED <<request, idx, stack, result, added, rerun, prevResult, artifact,
                 again, first, returned, catalog, presets, elsewhere>>

\* The dialect a second emission is made for: each pair of different
\* dialects is taken once.
otherDialect(database) ==
  CASE database = "postgresql" -> "mysql"
    [] database = "mysql"      -> "sqlite"
    [] database = "sqlite"     -> "postgresql"

\* The caller emits the list of the schema it has once more, with the same
\* backend, for another dialect.
EmitAgain ==
  /\ pc = "emitted"
  /\ again = "no"
  /\ ~rerun
  /\ artifact.orm \in Orms
  /\ again' = "emit"
  /\ first' = [result |-> result, artifact |-> artifact]
  /\ artifact' = generateSchemaForORM(artifact.orm, Map(definitionOf, artifact.tables),
                                      otherDialect(artifact.database))
  /\ pc' = "emitted"
  /\ UNCHANGED <<request, idx, stack, result, added, rerun, prevResult, schema,
                 returned, catalog, presets, elsewhere>>

\* After a repeated call whose list was emitted, the caller emits the list
\* of the first call with the same backend and dialect.
EmitFirst ==
  /\ pc = "emitted"
  /\ again = "call"
  /\ ~rerun
  /\ first.artifact = NoArtifact
  /\ first' = [first EXCEPT !.artifact =
                 generateSchemaForORM(artifact.orm, Map(definitionOf, first.result),
                                      artifact.database)]
  /\ UNCHANGED <<request, idx, stack, result, added, pc, rerun, prevResult, artifact,
                 schema, again, returned, catalog, presets, elsewhere>>

\* --------------------------------------------------- two calls in progress
\* getTablesWithDependencies(tableNames) as one call made alone computes it:
\* addTable on each name in turn, each table pushed after the tables its
\* fields reference; `threw` when the call stack is full.
RECURSIVE addTableAlone(_, _, _)
RECURSIVE forEachFieldAlone(_, _, _, _)
addTableAlone(run, name, depth) ==
  IF run.threw \/ name \in run.added THEN run
  ELSE IF getTableByName(name) = undefined THEN run
  ELSE IF depth >= MaxStack THEN [run EXCEPT !.threw = TRUE]
  ELSE LET visited == forEachFieldAlone(run, getTableByName(name).fields, 1, depth + 1)
       IN  IF visited.threw THEN visited
           ELSE [visited EXCEPT !.result = Append(@, name), !.added = @ \cup {name}]

forEachFieldAlone(run, fields, i, depth) ==
  IF run.threw \/ i > Len(fields) THEN run
  ELSE LET field == fields[i]
           visited == IF hasReferences(field) /\ field.references.table \notin run.added
                      THEN addTableAlone(run, field.references.table, depth)
                      ELSE run
       IN  forEachFieldAlone(visited, fields, i + 1, depth)

RECURSIVE forEachTableAlone(_, _, _)
forEachTableAlone(run, tableNames, i) ==
  IF run.threw \/ i > Len(tableNames) THEN run
  ELSE forEachTableAlone(addTableAlone(run, tableNames[i], 0), tableNames, i + 1)

getTablesWithDependencies(tableNames) ==
  LET run == forEachTableAlone([result |-> <<>>, added |-> {}, threw |-> FALSE], tableNames, 1)
  IN  [threw |-> run.threw, result |-> IF run.threw THEN <<>> ELSE run.result]

\* The tables two callers ask for at once: two tables that reference the
\* same third one.
PairNames == {"posts", "orders"}

PairRequests == SeqsUpTo(PairNames, MaxPair)

\* A caller of two begins its call.
PairCall ==
  /\ Call
  /\ request' \in PairRequests

\* The call in progress and the call that waits.
running == [request |-> request, idx |-> idx, stack |-> stack, result |-> result,
            added |-> added, pc |-> pc]

\* Switch with `added` a Set of the module, one for both calls, in place of
\* the Set each call makes.
Switch_SharedAdded ==
  /\ pc \in {"running", "done", "overflow"}
  /\ other.pc \in {"idle", "running"}
  /\ request' = other.request
  /\ idx' = other.idx
  /\ stack' = other.stack
  /\ result' = other.result
  /\ added' = added
  /\ pc' = other.pc
  /\ other' = running
  /\ interleaved' = (interleaved \/ (pc = "running" /\ other.pc = "running"))
  /\ UNCHANGED <<rerun, prevResult, artifact, schema, again, first, returned,
                 catalog, presets, cli>>

\* The steps of two calls interleave: the call in progress waits where it
\* stands, with its tableNames, its forEach position, its frames, its result
\* and its added, and the other call takes the next steps with its own.
Switch ==
  /\ pc \in {"running", "done", "overflow"}
  /\ other.pc \in {"idle", "running"}
  /\ request' = other.request
  /\ idx' = other.idx
  /\ stack' = other.stack
  /\ result' = other.result
  /\ added' = other.added
  /\ pc' = other.pc
  /\ other' = running
  /\ interleaved' = (interleaved \/ (pc = "running" /\ other.pc = "running"))
  /\ UNCHANGED <<rerun, prevResult, artifact, schema, again, first, returned,
                 catalog, presets, cli>>

PairNext ==
  \/ PairCall
  \/ ForEachTable
  \/ ForEachField
  \/ PushTable
  \/ Return
  \/ Switch

SpecPair == Init /\ [][PairNext]_vars

\* ------------------------------------------------------------ the CLI flows
\* The state of the generator, which no step of a main flow writes.
generator ==
  << request, idx, stack, result, added, pc, rerun, prevResult, artifact, schema,
     again, first, returned, catalog, presets, other, interleaved >>

\* process.exit(code), reached by a failure of the named step when it has
\* one.
exited(code, step) ==
  [main EXCEPT !.at = "exited", !.exitCode = code, !.failed = step, !.ranAtFailure = steps]

\* main of index.ts: detectProject().
IndexDetect ==
  /\ main.program = "none"
  /\ \E p \in Projects : project' = p
  /\ main' = [main EXCEPT !.program = "index", !.at = "detected"]
  /\ UNCHANGED <<config, steps, installed, writer>>
  /\ UNCHANGED generator

\* main of index.ts: if (project.hasDrizzle) the user confirms or the
\* process exits with code 0.
IndexConfirm ==
  /\ main.program = "index"
  /\ main.at = "detected"
  /\ IF project.existingOrm = "drizzle"
     THEN \E shouldContinue \in BOOLEAN :
            main' = IF shouldContinue
                    THEN [main EXCEPT !.at = "confirmed", !.confirmed = "yes"]
                    ELSE [main EXCEPT !.at = "exited", !.confirmed = "no", !.exitCode = "0"]
     ELSE main' = [main EXCEPT !.at = "confirmed"]
  /\ UNCHANGED <<project, config, steps, installed, writer>>
  /\ UNCHANGED generator

\* promptOrmSetup(project): the ORM, the database and, for Drizzle, the
\* studio; a cancelled prompt exits with code 0.
promptOrmSetup ==
  /\ main.program = "index"
  /\ main.at = "confirmed"
  /\ \/ /\ \E orm \in Orms, database \in Databases, includeStudio \in BOOLEAN :
             /\ includeStudio => orm = "drizzle"
             /\ config' = [orm |-> orm, database |-> database, includeStudio |-> includeStudio]
        /\ main' = [main EXCEPT !.at = "configured"]
     \/ /\ main' = [main EXCEPT !.at = "exited", !.exitCode = "0"]
        /\ UNCHANGED config
  /\ UNCHANGED <<project, steps, installed, writer>>
  /\ UNCHANGED generator

\* main of index.ts, step 4: the next execa of installDependencies ends; a
\* command that fails throws into main's catch, and after the last one main
\* goes on to step 5, where generate...Setup calls writeMultipleFiles.
IndexInstall ==
  /\ main.program = "index"
  /\ main.at = "configured"
  /\ LET commands == installDependencies(project.packageManager, config.orm,
                                         config.database, config.includeStudio)
         k == Len(installed) + 1
     IN  \/ /\ installed' = Append(installed, commands[k])
            /\ IF k < Len(commands)
               THEN UNCHANGED <<main, steps, writer>>
               ELSE /\ steps' = Append(steps, "install")
                    /\ main' = [main EXCEPT !.at = "generating"]
                    /\ \E version \in WriterVersions :
                         writer' = writeMultipleFiles(version, setupFiles(config.orm))
         \/ /\ main' = exited("1", "install")
            /\ UNCHANGED <<installed, steps, writer>>
  /\ UNCHANGED <<project, config>>
  /\ UNCHANGED generator

\* What the end of a file's operation does to the call: a failure rejects
\* it, and main's catch exits; the last write resolves it, and main goes on
\* to step 6, addPackageScripts.
allWritten(at) == \A k \in 1..Len(at) : at[k] = "written"

\* await mkdir(dir, { recursive: true }) of a file ends.
WriterMkdir ==
  /\ main.at = "generating"
  /\ \E k \in 1..Len(writer.files) :
       /\ writer.at[k] = "mkdir"
       /\ \/ /\ writer' = [writer EXCEPT !.at[k] = "write",
                                         !.dirs = @ \cup {dirname(writer.files[k])}]
             /\ UNCHANGED main
          \/ /\ writer' = [writer EXCEPT !.at[k] = "failed",
                                         !.settled = "rejected",
                                         !.error = writeError(writer.version, writer.files[k], "mkdir")]
             /\ main' = exited("1", "generate")
  /\ UNCHANGED <<project, config, steps, installed>>
  /\ UNCHANGED generator

\* await writeFile(path, content) of a file ends; in the loop the next
\* file's writeFileWithDir begins.
WriterWrite ==
  /\ main.at = "generating"
  /\ \E k \in 1..Len(writer.files) :
       /\ writer.at[k] = "write"
       /\ \/ LET written == [writer.at EXCEPT ![k] = "written"]
                 at == IF writer.version = "sequential" /\ k < Len(writer.files)
                       THEN [written EXCEPT ![k + 1] = "mkdir"]
                       ELSE written
             IN  /\ writer' = [writer EXCEPT !.at = at,
                                             !.settled = IF allWritten(at) THEN "resolved"
                                                         ELSE "pending"]
                 /\ IF allWritten(at)
                    THEN /\ steps' = Append(steps, "generate")
                         /\ main' = [main EXCEPT !.at = "scripts"]
                    ELSE UNCHANGED <<main, steps>>
          \/ /\ writer' = [writer EXCEPT !.at[k] = "failed",
                                         !.settled = "rejected",
                                         !.error = writeError(writer.version, writer.files[k], "open")]
             /\ main' = exited("1", "generate")
             /\ UNCHANGED steps
  /\ UNCHANGED <<project, config, installed>>
  /\ UNCHANGED generator

\* main of index.ts, step 6: addPackageScripts ends, and main reports
\* success; or it throws into main's catch.
IndexScripts ==
  /\ main.program = "index"
  /\ main.at = "scripts"
  /\ \/ /\ steps' = steps \o << "scripts", "success" >>
        /\ main' = [main EXCEPT !.at = "finished", !.exitCode = "0"]
     \/ /\ main' = exited("1", "scripts")
        /\ UNCHANGED steps
  /\ UNCHANGED <<project, config, installed, writer>>
  /\ UNCHANGED generator

\* main of the first CLI: detectSetup().
CliDetect ==
  /\ main.program = "none"
  /\ \E p \in Projects : project' = p
  /\ main' = [main EXCEPT !.program = "cli", !.at = "detected"]
  /\ UNCHANGED <<config, steps, installed, writer>>
  /\ UNCHANGED generator

\* main of the first CLI, step 2: validateSetup(setup), and process.exit(1)
\* when it is not valid.
CliValidate ==
  /\ main.program = "cli"
  /\ main.at = "detected"
  /\ main' = IF validateSetup(project).valid
             THEN [main EXCEPT !.at = "validated"]
             ELSE [main EXCEPT !.at = "exited", !.exitCode = "1"]
  /\ UNCHANGED <<project, config, steps, installed, writer>>
  /\ UNCHANGED generator

\* selectOrm(setup): with an ORM already there the user confirms or the
\* process exits with code 0; then the ORM is chosen.
selectOrm ==
  /\ main.program = "cli"
  /\ main.at = "validated"
  /\ \E shouldContinue \in BOOLEAN, orm \in {"prisma", "drizzle"} :
       IF project.existingOrm # "none" /\ ~shouldContinue
       THEN /\ main' = [main EXCEPT !.at = "exited", !.confirmed = "no", !.exitCode = "0"]
            /\ UNCHANGED config
       ELSE /\ main' = [main EXCEPT !.at = "setup",
                                    !.confirmed = IF project.existingOrm # "none"
                                                  THEN "yes" ELSE @]
            /\ config' = [orm |-> orm, database |-> project.database,
                          includeStudio |-> FALSE]
  /\ UNCHANGED <<project, steps, installed, writer>>
  /\ UNCHANGED generator

\* setupDrizzle / setupPrisma: the next step ends, well or not; after the
\* last one main reports success.
CliSetupStep ==
  /\ main.program = "cli"
  /\ main.at = "setup"
  /\ LET plan == setupSteps(config.orm, config.database)
         step == plan[main.next]
     IN  \/ /\ steps' = IF step.name = "complete"
                        THEN steps \o << "complete", "success" >>
                        ELSE Append(steps, step.name)
            /\ main' = IF step.name = "complete"
                       THEN [main EXCEPT !.at = "finished", !.exitCode = "0"]
                       ELSE [main EXCEPT !.next = @ + 1]
         \/ /\ step.onFailure = "exit"
            /\ main' = exited("1", step.name)
            /\ UNCHANGED steps
         \/ /\ step.onFailure = "swallowed"
            /\ main' = [main EXCEPT !.next = @ + 1, !.failed = step.name,
                                    !.ranAtFailure = steps]
            /\ UNCHANGED steps
         \/ /\ step.onFailure = "ignored"
            /\ main' = [main EXCEPT !.next = @ + 1]
            /\ UNCHANGED steps
  /\ UNCHANGED <<project, config, installed, writer>>
  /\ UNCHANGED generator

SetupNext ==
  \/ IndexDetect
  \/ IndexConfirm
  \/ promptOrmSetup
  \/ IndexInstall
  \/ WriterMkdir
  \/ WriterWrite
  \/ IndexScripts
  \/ CliDetect
  \/ CliValidate
  \/ selectOrm
  \/ CliSetupStep

SpecSetup == Init /\ [][SetupNext]_vars

Next ==
  \/ Call
  \/ ForEachTable
  \/ ForEachField
  \/ PushTable
  \/ Return
  \/ Reresolve
  \/ CallAgain
  \/ EmitResolved
  \/ EmitPreset
  \/ EmitSelected
  \/ generateDrizzleSetup
  \/ generatePrismaSetup
  \/ generateKyselySetup
  \/ EmitAgain
  \/ EmitFirst

Spec == Init /\ [][Next]_vars

\* ================================================================ claims
\* The foreign-key targets of the catalog table `name`.
refs(name) ==
  LET fields == getTableByName(name).fields
  IN  {fields[i].references.table : i \in {j \in 1..Len(fields) : hasReferences(fields[j])}}

\* The least set of names that holds S and the foreign-key targets, in the
\* catalog, of its members.
RECURSIVE Closure(_)
Closure(S) ==
  LET T == S \cup (UNION {refs(n) : n \in S} \cap CatalogNames)
  IN  IF T = S THEN S ELSE Closure(T)

\* The catalog tables reachable from a request list through foreign keys.
Reachable(names) == Closure(Range(names) \cap CatalogNames)

SelfReferencing == {n \in CatalogNames : n \in refs(n)}

Count(x, s) == Cardinality({i \in 1..Len(s) : s[i] = x})

\* Every foreign-key target of s[i] stands at a position before i.
DependenciesFirst(s) ==
  \A i \in 1..Len(s) : \A b \in refs(s[i]) : \E j \in 1..(i - 1) : s[j] = b

Ended == pc \in {"done", "overflow"}

\* C1: cycle safety.  A call whose request reaches a table with a foreign key
\* to itself ends by returning, and the returned list holds that table once.
C1_CycleSafety ==
  \A n \in SelfReferencing :
    (Ended /\ n \in Reachable(request)) => (pc = "done" /\ Count(n, result) = 1)

C3_OrderingCorrectness ==
  /\ pc = "done" => DependenciesFirst(result)
  /\ (Ended /\ ~rerun /\ request = << "comments" >>)
       => (pc = "done" /\ result = << "users", "posts", "comments" >>)

\* The argument of the invocation of addTable the next step makes, "" when
\* the next step invokes nothing.
invokedNext ==
  IF pc # "running" THEN ""
  ELSE IF stack = << >>
  THEN (IF idx <= Len(request) THEN request[idx] ELSE "")
  ELSE LET top == stack[Len(stack)]
           fields == getTableByName(top.name).fields
       IN  IF top.field <= Len(fields) /\ hasReferences(fields[top.field])
              /\ fields[top.field].references.table \notin added
           THEN fields[top.field].references.table
           ELSE ""

C5_NoDuplicates ==
  /\ \A i, j \in 1..Len(result) : result[i] = result[j] => i = j
  /\ DependenciesFirst(result)

\* C5 witness: a returned list for a request whose two tables share a
\* foreign-key target, which the list holds once.
C5_Witness ==
  /\ pc = "done"
  /\ ~rerun
  /\ \E i, j \in 1..Len(request) :
       /\ request[i] # request[j]
       /\ \E shared \in refs(request[i]) \cap refs(request[j]) : Count(shared, result) = 1

\* C6: idempotence.  Resolving the names of a returned list returns the
\* same names in the same order.
C6_Idempotence == (rerun /\ pc = "done") => result = prevResult

\* C6 witness: a returned list in which a table follows its foreign-key
\* target has been resolved again.
C6_Witness ==
  /\ rerun
  /\ pc = "done"
  /\ \E i \in 1..Len(prevResult) : refs(prevResult[i]) # {}

\* ------------------------------------------------------ emitted artifacts
Emitted == pc = "emitted" /\ artifact.orm \in Orms

\* The type names of the Field interface, each a case of every mapping.
FieldTypes == {"uuid", "string", "text", "number", "boolean", "date", "json"}

fieldsOf(names) == Flatten([i \in 1..Len(names) |-> definitionOf(names[i]).fields])

tokens(blocks, kinds) ==
  UNION {Range(d.code) : d \in UNION {Range(b.items) : b \in {c \in Range(blocks) : c.kind \in kinds}}}

\* The primitive names the header of an artifact imports: the column builders
\* of a Drizzle schema (the table function is no primitive), the helper types
\* of a Kysely schema.
imported(a) ==
  LET header == a.blocks[1]
  IN  {header.items[i].name : i \in 1..Len(header.items)}
        \ {"pgTable", "mysqlTable", "sqliteTable"}

\* The primitive names the declarations of an artifact use.
used(a) ==
  IF a.orm = "drizzle"
  THEN {t.text : t \in {u \in tokens(a.blocks, {"table"}) : u.part = "type"}}
  ELSE {t.text : t \in {u \in tokens(a.blocks, {"interface", "type"}) : u.part = "helper"}}

\* C7: import minimality.  The header of a Drizzle or Kysely schema imports
\* exactly the primitive names its declarations use.
C7_ImportMinimality ==
  (Emitted /\ artifact.orm \in {"drizzle", "kysely"}) => imported(artifact) = used(artifact)

\* C8: relation declarations name declared tables.  In the Drizzle schema of
\* a resolved list every relations block follows every table block, and the
\* table symbols it names are tables the schema declares.
C8_RelationsNameDeclaredTables ==
  (Emitted /\ artifact.orm = "drizzle" /\ artifact.tables = result) =>
    LET b == artifact.blocks
        declared == {b[i].name : i \in {k \in 1..Len(b) : b[k].kind = "table"}}
    IN  \A i \in 1..Len(b) :
          b[i].kind = "relations" =>
            /\ \A j \in 1..Len(b) : b[j].kind = "table" => j < i
            /\ b[i].name \in declared
            /\ \A t \in tokens(<< b[i] >>, {"relations"}) :
                 t.part = "symbol" => t.text \in declared

\* Some field of the listed tables references a table that is not listed.
Dangling(names) ==
  \E f \in Range(fieldsOf(names)) : hasReferences(f) /\ f.references.table \notin Range(names)

\* C9: dangling foreign keys are rejected.  An emitter given a list with a
\* foreign key to a table outside the list throws UnresolvableForeignKey and
\* returns no text.
C9_DanglingRejected ==
  (Emitted /\ Dangling(artifact.tables)) =>
    (artifact.threw = "UnresolvableForeignKey" /\ artifact.blocks = << >>)

Unmapped(names) == \E f \in Range(fieldsOf(names)) : f.type \notin FieldTypes

declarationBlock(a, k) ==
  CASE a.orm = "drizzle" -> a.blocks[1 + k]
    [] a.orm = "prisma"  -> a.blocks[2 + k]
    [] a.orm = "kysely"  -> a.blocks[4 * k - 2]

typeOf(code) == (CHOOSE t \in Range(code) : t.part = "type").text

declared(a) ==
  UNION { LET fields == definitionOf(a.tables[k]).fields
              items == declarationBlock(a, k).items
          IN  {[field |-> fields[i], code |-> items[i].code] : i \in 1..Len(fields)}
          : k \in 1..Len(a.tables) }

parts(code) == {code[i].part : i \in 1..Len(code)}

\* The place of a part of a Drizzle column chain in the canonical order: the
\* base type and its column-name argument, the length option and the closing
\* bracket of the type call, then the markers; the default-value generator
\* $defaultFn is a default-value marker.
drizzleRank(part) ==
  CASE part \in {"type", "name"}         -> 1
    [] part \in {"length", "close"}      -> 2
    [] part = "primaryKey"               -> 3
    [] part = "notNull"                  -> 4
    [] part = "unique"                   -> 5
    [] part \in {"default", "defaultFn"} -> 6
    [] part = "references"               -> 7

\* C11: canonical sub-part order.  In every column chain of a Drizzle schema
\* the parts stand in the order base type, length, primary key, not null,
\* unique, default, reference: no part stands before a part of lower rank.
C11_CanonicalOrder ==
  (Emitted /\ artifact.orm = "drizzle") =>
    \A d \in declared(artifact) :
      \A i, j \in 1..Len(d.code) :
        i < j => drizzleRank(d.code[i].part) <= drizzleRank(d.code[j].part)

\* C11 witness: a Drizzle schema with a column that has a length, a not-null
\* marker and a default, a column with a reference after its not-null marker,
\* and a key column with its generator.
C11_Witness ==
  /\ Emitted
  /\ artifact.orm = "drizzle"
  /\ \E d \in declared(artifact) : {"length", "notNull", "default"} \subseteq parts(d.code)
  /\ \E d \in declared(artifact) : {"notNull", "references"} \subseteq parts(d.code)
  /\ \E d \in declared(artifact) : {"primaryKey", "defaultFn"} \subseteq parts(d.code)

\* C12: nullability rule.  A primary key is never declared optional or
\* nullable; Drizzle chains .notNull() exactly on a required field that is no
\* primary key; Prisma's ? and Kysely's | null stand exactly on a field that
\* is neither required nor a primary key.
C12_NullabilityRule ==
  Emitted =>
    \A d \in declared(artifact) :
      LET f == d.field
          p == parts(d.code)
      IN  /\ f.isPrimaryKey => p \cap {"optional", "nullable"} = {}
          /\ artifact.orm = "drizzle" => ("notNull" \in p <=> (f.required /\ ~f.isPrimaryKey))
          /\ artifact.orm = "prisma" => ("optional" \in p <=> (~f.required /\ ~f.isPrimaryKey))
          /\ artifact.orm = "kysely" => ("nullable" \in p <=> (~f.required /\ ~f.isPrimaryKey))

\* C12 witness: a Prisma schema that declares a primary key whose required
\* is unset without ?, a non-key field whose required is unset with ?, and
\* a required field without it.
C12_Witness ==
  /\ Emitted
  /\ artifact.orm = "prisma"
  /\ \E d \in declared(artifact) :
       d.field.isPrimaryKey /\ ~d.field.required /\ "optional" \notin parts(d.code)
  /\ \E d \in declared(artifact) :
       ~d.field.isPrimaryKey /\ ~d.field.required /\ "optional" \in parts(d.code)
  /\ \E d \in declared(artifact) : d.field.required /\ "optional" \notin parts(d.code)

\* A block that declares a table: a Drizzle table, a Prisma model, a Kysely
\* table interface (the Database interface declares no table).
isDeclaration(b) ==
  \/ b.kind \in {"table", "model"}
  \/ b.kind = "interface" /\ b.name # "Database"

\* The name a backend gives the declaration block of a table.
blockName(orm, table) ==
  CASE orm = "drizzle" -> table.name
    [] orm = "prisma"  -> capitalize(table.displayName)
    [] orm = "kysely"  -> capitalize(table.displayName) \o "Table"

\* A field declaration of a block; a Prisma @@index line declares no field.
isFieldDecl(d) == "index" \notin parts(d.code)

\* C13: one declaration block per table, in order.  The declaration blocks
\* of a schema are as many as the tables of the list it was emitted for, the
\* k-th block declares the k-th table, and its field declarations name the
\* table's fields, all of them and no other, in the table's field order.
C13_OneBlockPerTable ==
  Emitted =>
    LET blocks == SelectSeq(artifact.blocks, isDeclaration)
    IN  /\ Len(blocks) = Len(artifact.tables)
        /\ \A k \in 1..Len(blocks) :
             LET table == definitionOf(artifact.tables[k])
                 decls == SelectSeq(blocks[k].items, isFieldDecl)
             IN  /\ blocks[k].name = blockName(artifact.orm, table)
                 /\ [i \in 1..Len(decls) |-> decls[i].name]
                      = [i \in 1..Len(table.fields) |-> table.fields[i].name]

\* C13 witness: a Prisma schema emitted for a list the resolver returned,
\* of three tables or more, one of them with a foreign key.
C13_Witness ==
  /\ Emitted
  /\ artifact.orm = "prisma"
  /\ artifact.tables = result
  /\ Len(result) >= 3
  /\ \E d \in declared(artifact) : hasReferences(d.field)

isDerivedType(b) == b.kind = "type"

\* What a derived type declaration says: export type name = helper<of>.
derivation(b) ==
  LET code == b.items[1].code
  IN  [ name   |-> b.name,
        helper |-> (CHOOSE t \in Range(code) : t.part = "helper").text,
        of     |-> (CHOOSE t \in Range(code) : t.part = "symbol").text ]

\* C14: derived type variants.  A Kysely schema holds three derived type
\* declarations per table and no other: after the table's interface XTable
\* come the full record X = Selectable<XTable>, the insertable NewX =
\* Insertable<XTable> and the updatable XUpdate = Updateable<XTable>, all
\* three over the one interface; and a field is wrapped in Generated<>, the
\* marker Insertable reads as server-generated, exactly when it is an
\* auto-increment primary key.
C14_DerivedTypeVariants ==
  (Emitted /\ artifact.orm = "kysely") =>
    LET b == artifact.blocks
    IN  /\ Len(SelectSeq(b, isDerivedType)) = 3 * Len(artifact.tables)
        /\ \A k \in 1..Len(artifact.tables) :
             LET X == capitalize(definitionOf(artifact.tables[k]).displayName)
             IN  /\ b[4 * k - 2].kind = "interface"
                 /\ b[4 * k - 2].name = X \o "Table"
                 /\ << derivation(b[4 * k - 1]), derivation(b[4 * k]), derivation(b[4 * k + 1]) >>
                      = << [name |-> X, helper |-> "Selectable", of |-> X \o "Table"],
                           [name |-> "New" \o X, helper |-> "Insertable", of |-> X \o "Table"],
                           [name |-> X \o "Update", helper |-> "Updateable", of |-> X \o "Table"] >>
        /\ \A d \in declared(artifact) :
             "helper" \in parts(d.code) <=> (d.field.isPrimaryKey /\ d.field.isAutoIncrement)

\* C14 witness: a Kysely schema for a table with one auto-increment primary
\* key and two other fields.
C14_Witness ==
  /\ Emitted
  /\ artifact.orm = "kysely"
  /\ \E k \in 1..Len(artifact.tables) :
       LET fields == definitionOf(artifact.tables[k]).fields
       IN  /\ Len(fields) = 3
           /\ Cardinality({i \in 1..3 : fields[i].isPrimaryKey /\ fields[i].isAutoIncrement}) = 1

\* The default clauses of a declaration.
defaults(code) == {t.text : t \in {u \in Range(code) : u.part = "default"}}

\* The reserved token now written as a string literal.
quotedNow == {".default('now')", "@default(\"now\")"}

idColumn(code) ==
  [ type          |-> typeOf(code),
    autoIncrement |-> \E t \in Range(code) :
                        t.part = "primaryKey" /\ t.text = ".primaryKey({ autoIncrement: true })",
    generator     |-> "defaultFn" \in parts(code) ]

\* The identifier key a dialect calls for: an auto-incrementing integer
\* under sqlite, a generated text identifier under postgresql and mysql.
expectedId(database) ==
  IF database = "sqlite"
  THEN [type |-> "integer", autoIncrement |-> TRUE, generator |-> FALSE]
  ELSE [type |-> "text", autoIncrement |-> FALSE, generator |-> TRUE]

\* C16: the identifier type depends on the dialect.  An identifier (uuid)
\* primary key is declared as the primitive its dialect calls for, both in a
\* schema generateDrizzleTables emits and in the tables of a preset of
\* getDrizzleSchema.
C16_IdentifierByDialect ==
  /\ (Emitted /\ artifact.orm = "drizzle") =>
       \A d \in declared(artifact) :
         (d.field.type = "uuid" /\ d.field.isPrimaryKey) =>
           idColumn(d.code) = expectedId(artifact.database)
  /\ pc = "preset" =>
       \A b \in Range(schema.blocks) :
         b.kind = "table" =>
           \A i \in 1..Len(b.items) :
             b.items[i].name = "id" => idColumn(b.items[i].code) = expectedId(schema.database)

\* The backend's auto-increment marker stands on a declaration.
autoIncrementMarked(orm, code) ==
  CASE orm = "drizzle" ->
         \E t \in Range(code) :
           t.part = "primaryKey" /\ t.text = ".primaryKey({ autoIncrement: true })"
    [] orm = "prisma" ->
         \E t \in Range(code) : t.part = "id" /\ t.text = "@id @default(autoincrement())"
    [] orm = "kysely" -> "helper" \in parts(code)

\* The backend's identifier-generator call stands on a declaration; Kysely
\* has none.
generatorMarked(orm, code) ==
  CASE orm = "drizzle" -> "defaultFn" \in parts(code)
    [] orm = "prisma"  -> \E t \in Range(code) : t.part = "id" /\ t.text = "@id @default(uuid())"
    [] orm = "kysely"  -> FALSE

\* C17: primary-key generation strategy.  An auto-increment primary key is
\* declared with the backend's auto-increment marker; a uuid primary key is
\* declared, in Drizzle and Prisma, with the generator call and no literal
\* default; no key carries both strategies.
C17_PrimaryKeyStrategy ==
  Emitted =>
    \A d \in declared(artifact) :
      d.field.isPrimaryKey =>
        /\ d.field.isAutoIncrement => autoIncrementMarked(artifact.orm, d.code)
        /\ (d.field.type = "uuid" /\ artifact.orm \in {"drizzle", "prisma"}) =>
             (generatorMarked(artifact.orm, d.code) /\ "default" \notin parts(d.code))
        /\ ~(autoIncrementMarked(artifact.orm, d.code) /\ generatorMarked(artifact.orm, d.code))

\* The parts of a declaration that mark a property of the field: primary
\* key, nullability, uniqueness, default, foreign key, as each backend
\* names them.
MarkerParts ==
  { "primaryKey", "id", "notNull", "optional", "nullable", "unique", "default",
    "references", "relation" }

\* The structural shape of a schema: of a header block (import, datasource,
\* generator) its kind, of any other block its kind, its name and, entry by
\* entry, the declared name and the markers of the declaration.
structure(a) ==
  [ k \in 1..Len(a.blocks) |->
      LET b == a.blocks[k]
      IN  IF b.kind \in {"import", "datasource", "generator"}
          THEN [kind |-> b.kind, name |-> "", items |-> << >>]
          ELSE [ kind |-> b.kind, name |-> b.name,
                 items |-> [ i \in 1..Len(b.items) |->
                               [ name |-> b.items[i].name,
                                 markers |-> parts(b.items[i].code) \cap MarkerParts ] ] ] ]

\* C18: the dialect never changes structure.  Two schemas emitted by one
\* backend for one table list have the same blocks in the same order, the
\* same declared names in the same order and the same markers on every
\* declaration, whatever the two dialects.
C18_DialectKeepsStructure ==
  ( /\ again # "no"
    /\ Emitted
    /\ first.artifact.orm = artifact.orm
    /\ first.artifact.tables = artifact.tables )
  => structure(artifact) = structure(first.artifact)

\* C18 witness: one list with a unique field and a foreign key, emitted by
\* one backend for two different dialects.
C18_Witness ==
  /\ again = "emit"
  /\ Emitted
  /\ first.artifact.orm = artifact.orm
  /\ first.artifact.tables = artifact.tables
  /\ first.artifact.database # artifact.database
  /\ \E d \in declared(artifact) : d.field.unique
  /\ \E d \in declared(artifact) : hasReferences(d.field)

C20_CatalogUnchangedResultsFresh ==
  /\ catalog = allTables
  /\ presets = schemaTemplates
  /\ (again = "call" /\ returned # first.result /\ pc = "done" /\ ~rerun)
       => (result = first.result /\ result # returned)

\* C20 witness: the caller changed the list of a call, and the same call
\* has returned a list of tables again.
C20_Witness ==
  /\ again = "call"
  /\ pc = "done"
  /\ ~rerun
  /\ returned # first.result
  /\ Len(result) >= 2

\* ------------------------------------------------- presets and the catalog
\* The names of the tables the catalog holds.
catalogNames == {catalog[j].name : j \in 1..Len(catalog)}

\* C22: presets draw on the catalog.  schemaTemplates holds a preset with
\* the identifier "empty" that lists no table, and every table a preset
\* lists is one of the tables of allTables.
C22_PresetsDrawOnCatalog ==
  /\ \E i \in 1..Len(presets) : presets[i].id = "empty" /\ Len(presets[i].tables) = 0
  /\ \A i \in 1..Len(presets) :
       \A k \in 1..Len(presets[i].tables) : presets[i].tables[k] \in catalogNames

\* C22 witness: the tables of a preset that lists more than one table were
\* looked up in the catalog and emitted.
C22_Witness ==
  /\ Emitted
  /\ \E i \in 1..Len(presets) :
       Len(presets[i].tables) > 1 /\ artifact.tables = presets[i].tables

\* The number of fields of a table that are marked as its primary key.
primaryKeys(table) ==
  Cardinality({i \in 1..Len(table.fields) : table.fields[i].isPrimaryKey})

\* C24: one primary key per table.  Every table of allTables has exactly one
\* field with isPrimaryKey = true.
C24_OnePrimaryKey ==
  \A j \in 1..Len(catalog) : primaryKeys(catalog[j]) = 1

\* C24 witness: a catalog table was emitted and its one key is among the
\* declarations.
C24_Witness ==
  /\ Emitted
  /\ artifact.tables # << >>
  /\ \A k \in 1..Len(artifact.tables) : artifact.tables[k] \in catalogNames
  /\ \E d \in declared(artifact) : d.field.isPrimaryKey

\* C30: presets are closed and ordered.  In every preset of schemaTemplates
\* each foreign key of a listed table targets a table the same preset lists
\* at the same place or earlier, and the resolver, called with a preset's
\* list, returns that list as it stands.
C30_PresetsClosedAndOrdered ==
  /\ \A i \in 1..Len(presets) :
       LET list == presets[i].tables
       IN  \A k \in 1..Len(list) :
             \A target \in refs(list[k]) : \E j \in 1..k : list[j] = target
  /\ (pc = "done" /\ \E i \in 1..Len(presets) : presets[i].tables = request)
       => result = request

\* C30 witness: the tables of a preset in which one table references another
\* were emitted as listed.
C30_Witness ==
  /\ Emitted
  /\ \E i \in 1..Len(presets) :
       /\ artifact.tables = presets[i].tables
       /\ \E k \in 1..Len(presets[i].tables) :
            \E target \in refs(presets[i].tables[k]) : target # presets[i].tables[k]

\* ------------------------------------------------- the presets' schemas
\* The catalog table a Prisma model stands for: the table with the model's
\* name as its display name, or a table by the model's own name.
tableOfModel(modelName) ==
  IF \E j \in 1..Len(catalog) : catalog[j].displayName = modelName
  THEN catalog[CHOOSE j \in 1..Len(catalog) : catalog[j].displayName = modelName].name
  ELSE modelName

\* The tables a preset's schema declares: the tables of a Drizzle schema,
\* the models of a Prisma schema, the entries of the Database interface of
\* a Kysely schema.
declaredTables(s) ==
  CASE s.orm = "drizzle" ->
         {b.name : b \in {c \in Range(s.blocks) : c.kind = "table"}}
    [] s.orm = "prisma" ->
         {tableOfModel(b.name) : b \in {c \in Range(s.blocks) : c.kind = "model"}}
    [] s.orm = "kysely" ->
         UNION { {b.items[i].name : i \in 1..Len(b.items)} :
                 b \in {c \in Range(s.blocks) : c.kind = "interface" /\ c.name = "Database"} }

\* The table list schemaTemplates holds for a preset identifier.
presetTables(template) ==
  presets[CHOOSE i \in 1..Len(presets) : presets[i].id = template].tables

\* C23: the three backends' presets declare the same tables.  For each of
\* the presets starter, blog, ecommerce and saas and every dialect, the
\* tables getDrizzleSchema, getPrismaSchema and getKyselySchema declare are
\* the tables schemaTemplates lists for the preset, hence the same for all
\* three backends.
C23_PresetsDeclareSameTables ==
  (pc = "preset" /\ schema.template \in {"starter", "blog", "ecommerce", "saas"})
    => declaredTables(schema) = Range(presetTables(schema.template))

\* ------------------------------------------------- foreign-key column types
\* The table blocks of a Drizzle schema.
tableBlocks(blocks) == {b \in Range(blocks) : b.kind = "table"}

\* The declaration of a column in a table block.
column(b, columnName) ==
  b.items[CHOOSE i \in 1..Len(b.items) : b.items[i].name = columnName].code

\* A declaration of a preset's table references the id of the given table,
\* with or without a delete rule.
pointsTo(code, tableName) ==
  \E t \in Range(code) :
    /\ t.part = "references"
    /\ t.text \in { ".references(() => " \o tableName \o ".id" \o options \o ")" :
                    options \in {"", ", { onDelete: 'cascade' }"} }

\* C29: foreign-key columns have the type of the key they reference.  In
\* every preset of getDrizzleSchema under every dialect, and in every schema
\* generateDrizzleTables emits for catalog tables under every dialect, a
\* foreign-key column is declared with the primitive type of the
\* primary-key column it references.
C29_ForeignKeyTypeMatchesKey ==
  /\ (pc = "preset" /\ schema.orm = "drizzle") =>
       \A b \in tableBlocks(schema.blocks), target \in tableBlocks(schema.blocks) :
         \A i \in 1..Len(b.items) :
           pointsTo(b.items[i].code, target.name) =>
             typeOf(b.items[i].code) = typeOf(column(target, "id"))
  /\ (Emitted /\ artifact.orm = "drizzle") =>
       \A d \in declared(artifact), target \in tableBlocks(artifact.blocks) :
         (hasReferences(d.field) /\ d.field.references.table = target.name) =>
           typeOf(d.code) = typeOf(column(target, d.field.references.field))

\* ------------------------------------------------- independent requests
\* What a call ended with: the list it returned, or the RangeError.
outcome(call) ==
  [ threw |-> call.pc = "overflow",
    result |-> IF call.pc = "overflow" THEN <<>> ELSE call.result ]

\* C21: independent requests do not interfere.  However the steps of two
\* calls of getTablesWithDependencies are interleaved, each call ends as the
\* same call made alone ends: with the same tables in the same order.
C21_CallsDoNotInterfere ==
  /\ running.pc \in {"done", "overflow"} =>
       outcome(running) = getTablesWithDependencies(running.request)
  /\ other.pc \in {"done", "overflow"} =>
       outcome(other) = getTablesWithDependencies(other.request)

\* C21 witness: two calls with different requests that resolve to a common
\* table have taken turns while both were in progress, and both have
\* returned.
C21_Witness ==
  /\ interleaved
  /\ pc = "done"
  /\ other.pc = "done"
  /\ request # other.request
  /\ Range(result) \cap Range(other.result) # {}

\* ------------------------------------------------- the CLI around the core
\* The packages a list of install commands names: the runtime packages of
\* the commands without the dev flag, the dev packages of those with it.
isDevCommand(c) == Len(c.args) >= 2 /\ c.args[2] \in {"--save-dev", "-D"}

packagesOf(commands) ==
  [ deps    |-> UNION { Range(SubSeq(c.args, 2, Len(c.args))) :
                        c \in {d \in Range(commands) : ~isDevCommand(d)} },
    devDeps |-> UNION { Range(SubSeq(c.args, 3, Len(c.args))) :
                        c \in {d \in Range(commands) : isDevCommand(d)} } ]

\* C25: the installer depends only on backend and dialect.  The runtime and
\* dev packages installDependencies has installed are those it installs for
\* the same ORM and database with any package manager and with or without
\* the studio; the same holds of the Drizzle-only installDependencies per
\* database; and while the installer runs no artifact has been generated or
\* written for it to read.
C25_InstallerDependsOnOrmAndDialect ==
  /\ (main.program = "index" /\ "install" \in Range(steps)) =>
       \A pm \in PackageManagers, includeStudio \in BOOLEAN :
         packagesOf(installDependencies(pm, config.orm, config.database, includeStudio))
           = packagesOf(installed)
  /\ config.database \in Databases =>
       \A pm \in PackageManagers, includeStudio \in BOOLEAN :
         packagesOf(installDrizzleDependencies(pm, config.database, includeStudio))
           = packagesOf(installDrizzleDependencies(project.packageManager, config.database,
                                                   config.includeStudio))
  /\ (main.program = "index" /\ main.at = "configured") =>
       (writer = NoWriter /\ artifact = NoArtifact /\ schema = NoSchema)

\* C25 witness: npm has installed the packages of Drizzle with the studio
\* asked for, in two commands.
C25_Witness ==
  /\ main.program = "index"
  /\ "install" \in Range(steps)
  /\ config.orm = "drizzle"
  /\ config.includeStudio
  /\ project.packageManager = "npm"
  /\ Len(installed) = 2

\* A file's mkdir or write is in progress.
inProgress(k) == writer.at[k] \in {"mkdir", "write"}

\* C26: files are written one at a time.  In writeMultipleFiles no two
\* files are in progress at once; a file is begun only when the file before
\* it is written; a file's directory is created before the file is written;
\* and when a file fails, the files after it are not begun and the error
\* names the path of the file that failed.
C26_FilesWrittenOneAtATime ==
  LET n == Len(writer.files)
  IN  /\ Cardinality({k \in 1..n : inProgress(k)}) <= 1
      /\ \A k \in 1..n :
           /\ (k > 1 /\ writer.at[k] # "waiting") => writer.at[k - 1] = "written"
           /\ writer.at[k] \in {"write", "written"} => dirname(writer.files[k]) \in writer.dirs
           /\ writer.at[k] = "failed" =>
                /\ \A j \in (k + 1)..n : writer.at[j] = "waiting"
                /\ writer.error.names = writer.files[k]

\* The project has been modified: a package installed, a setup step done, a
\* file handed to the writer.
Modified == installed # << >> \/ steps # << >> \/ writer # NoWriter

\* C27: nothing is modified unless validation passed and the user did not
\* decline.  A project is modified only when validateSetup finds it valid
\* and, if an ORM was detected in it, the user confirmed the overwrite.
C27_NothingModifiedUnlessValid ==
  Modified =>
    /\ validateSetup(project).valid
    /\ project.existingOrm # "none" => main.confirmed = "yes"

\* Every occurrence of step b in the steps done comes after an occurrence
\* of step a.
before(a, b) ==
  \A i \in 1..Len(steps) : steps[i] = b => \E j \in 1..(i - 1) : steps[j] = a

\* The steps that generate files.
GenerationSteps == {"generate", "mkdir", "schema", "client", "config", "migrate"}

\* The generation steps the program in progress has to complete.
generationPlan ==
  IF main.program = "index" THEN {"generate"}
  ELSE { s.name : s \in Range(setupSteps(config.orm, config.database)) } \cap GenerationSteps

\* C28: setup steps run in a fixed order and stop at the first failure.
\* File generation starts only after the install has completed, the
\* package.json scripts are added only after generation has completed, and
\* once a step has failed the process has exited with code 1, no further
\* step has run and no success has been reported.
C28_FixedOrderStopAtFailure ==
  /\ \A g \in GenerationSteps : before("install", g)
  /\ writer # NoWriter => "install" \in Range(steps)
  /\ \A g \in generationPlan : before(g, "scripts")
  /\ main.failed # "" =>
       /\ main.at = "exited"
       /\ main.exitCode = "1"
       /\ steps = main.ranAtFailure
       /\ "success" \notin Range(steps)

====
